---- MODULE Spec2Model ----
(***************************************************************************)
(* A model of the Solder -> CurseForge updater (src/main.py, src/gui.py).  *)
(*                                                                         *)
(* Strings the program takes apart (URLs, file names, version strings)     *)
(* are sequences of tokens: a token is either one of the characters the    *)
(* code treats specially ("/", "?", ":", "-", ".") or a run of ordinary    *)
(* characters.  MD5 digests are small integers.  The Downloads directory   *)
(* is a function from the file names present in it to the digest of the    *)
(* bytes each file holds.                                                  *)
(***************************************************************************)
EXTENDS Integers, Sequences, FiniteSets, TLC

\* ------------------------------------------------------------------ bounds
\* Longest raw "mods" array of a build.
MaxMods == 3
\* Digests are 1..NumDigests; the descriptors declare 1 and 2.
NumDigests == 3
\* Clock ticks in a second, and the last tick of the clock.
TickHz == 10
MaxTime == 12
\* Update threads the window starts.
MaxRuns == 3

VARIABLES
    \* --- reconcile / fetch stage of main() (src/main.py 725-750)
    build_mods,        \* build_details["mods"], the raw manifest
    mod_list,          \* regular mods, in manifest order
    non_mod_list,      \* non-mod assets, in manifest order
    forge_list,        \* loader descriptors, in manifest order
    downloads,         \* the Downloads directory: file name -> digest
    existing_mods,     \* fetch_existing_mods' snapshot of the directory
    mods_to_download,  \* compare_mods' first result
    mods_to_remove,    \* compare_mods' second result
    dl_idx,            \* download_mods: index of the next item
    downloaded_files,  \* download_mods: the list it returns
    update_running,    \* the threading.Event of the GUI (main(None), the
                       \* command line, is a run in which it is never cleared)
    pc,                \* where main() is
    report,            \* the last operator-facing message of the run
    \* --- observations of the run (not program state)
    pre_compare,       \* the directory as the last compare_mods found it
    last_compare,      \* the download set of the last compare_mods, valid
                       \* while no download batch has started since
    prev_compare,      \* last_compare as the last compare_mods found it
    dl_log,            \* outcome of each processed item of the batch
    cancel_at,         \* items processed when Stop was confirmed, or -1
    \* --- resolution stage of main() (src/main.py 771-805)
    slugs,             \* extract_slugs_from_mod_list's dictionary
    available_mods,    \* names of the mods resolved so far, in order
    unavailable_mods,  \* names of the mods not resolved, in order
    backup_available,  \* backup_check_mod_availability's first list
    still_unavailable, \* backup_check_mod_availability's second list
    attached,          \* name -> the projectID and fileID put on the mod
    r_idx,             \* index of the next mod of the loop under way
    manifest_json,     \* the "files" of manifest.json, once written
    overrides,         \* the archives unpacked into the overrides tree:
                       \* file name and digest of each
    archive_written,   \* whether the output archive has been written
    log,               \* the numbered messages printed, with their mod
    \* --- observations of the resolution
    lookups,           \* the fetch_mod_details calls made: mod and endpoint
    last_resp,         \* what the endpoint answered to the last of them
    picked,            \* name -> the file taken for the mod, and how
    \* --- the gate of rate_limited (src/main.py 302-316)
    clock,             \* time.time(), in ticks
    last_called,       \* last_called[0]
    gate_pc,           \* where the call of rate_limited_function is
    wake,              \* when the time.sleep under way returns
    \* --- observations of the requests
    req_start,         \* when the last HTTP request was started, or -1
    prev_end,          \* when the request before it completed, or -1
    \* --- the two match procedures applied to one mod (src/main.py 388-529)
    m_mod,             \* the mod looked up
    m_presp,           \* what the primary endpoint answers for its slug
    m_bresp,           \* what the backup endpoint answers for its slug
    m_primary,         \* what check_mod_availability makes of it
    m_backup,          \* what backup_check_mod_availability makes of it
    m_pc,              \* which of the two passes is next
    \* --- the start of main() (src/main.py 682-723)
    BUILD_VERSION,     \* the global of the same name
    requests,          \* the requests the run has sent to the Solder API
    fbd,               \* the call of fetch_build_details: its argument, the
                       \* requests it sent, what the API did, its result
    \* --- a whole run of main() under the GUI's Stop (src/main.py 663-814)
    build_dir,         \* the entries of the build directory but Downloads
    stop_at,           \* observation: where the run was when Stop was
                       \* confirmed, and the units of work done by then
    \* --- the window and its worker threads (src/gui.py 31-95)
    start_button,      \* state of the Start button: "normal" or "disabled"
    stop_button,       \* whether the Stop button is gridded: "shown", "hidden"
    workers,           \* where each update thread is, "unborn" before it
    gui_pc,            \* where the main thread is in start_update
    dialog,            \* whether stop_update's question is on the screen
    \* --- the batches of a ThreadPoolExecutor (src/main.py 284-300, 569-592)
    tasks,             \* the tasks submitted to the executor of the batch
                       \* under way: descriptor and state of each
    transient,         \* the copies of archives lying in the overrides tree
    main_exc           \* whether an exception is on its way out of the
                       \* "with" block of the executor

cacheVars == <<build_mods, mod_list, non_mod_list, forge_list, downloads, existing_mods,
               mods_to_download, mods_to_remove, dl_idx, downloaded_files,
               update_running, pc, report, pre_compare, last_compare,
               prev_compare, dl_log, cancel_at>>

resolveVars == <<slugs, available_mods, unavailable_mods, backup_available,
                 still_unavailable, attached, r_idx, manifest_json, overrides,
                 archive_written, log, lookups, last_resp, picked>>

rateVars == <<clock, last_called, gate_pc, wake, req_start, prev_end>>

matchVars == <<m_mod, m_presp, m_bresp, m_primary, m_backup, m_pc>>

\* The variables of the stages modelled on their own.
buildVars == <<BUILD_VERSION, requests, fbd>>

runVars == <<build_dir, stop_at>>

\* The variables of the specifications added last.
guiVars == <<start_button, stop_button, workers, gui_pc, dialog>>

taskVars == <<tasks, transient, main_exc>>

extraVars == <<runVars, guiVars, taskVars>>

laterVars == <<matchVars, buildVars, extraVars>>

vars == <<cacheVars, resolveVars, rateVars, laterVars>>

\* The variables of main() that every stage has.
\* (mod_list, non_mod_list, update_running, pc, report are among cacheVars.)
cacheOnlyVars == <<build_mods, downloads, existing_mods, mods_to_download,
                   mods_to_remove, dl_idx, downloaded_files, pre_compare,
                   last_compare, prev_compare, dl_log, cancel_at>>

\* ------------------------------------------------------- sequence helpers
Range(s) == {s[i] : i \in 1..Len(s)}

RECURSIVE LastIndexOf(_, _)
\* The greatest index of token c in s, or 0.
LastIndexOf(s, c) ==
    IF s = <<>> THEN 0
    ELSE IF s[Len(s)] = c THEN Len(s)
    ELSE LastIndexOf(SubSeq(s, 1, Len(s) - 1), c)

RECURSIVE FirstIndexOf(_, _)
\* The least index of token c in s, or Len(s) + 1.
FirstIndexOf(s, c) ==
    IF s = <<>> THEN 1
    ELSE IF Head(s) = c THEN 1
    ELSE 1 + FirstIndexOf(Tail(s), c)

\* Python's "needle in haystack" on strings: a contiguous run.
Contains(hay, needle) ==
    \E i \in 0..(Len(hay) - Len(needle)) :
        SubSeq(hay, i + 1, i + Len(needle)) = needle

\* ------------------------------------------------------ sanitize_filename
IllegalChars == {"<", ">", ":", "\"", "/", "\\", "|", "?", "*"}

\* os.path.basename: what follows the last "/".
basename(url) == SubSeq(url, LastIndexOf(url, "/") + 1, Len(url))

\* filename.split('?')[0]
StripQuery(f) == SubSeq(f, 1, FirstIndexOf(f, "?") - 1)

\* re.sub(r'[<>:"/\\|?*]', '_', filename)
ReplaceIllegal(f) == [i \in 1..Len(f) |-> IF f[i] \in IllegalChars THEN "_" ELSE f[i]]

sanitize_filename(url) == ReplaceIllegal(StripQuery(basename(url)))

\* ------------------------------------------------------------ the manifest
Digests == 1..NumDigests

ModA == [name |-> "A", url |-> <<"h", "/", "mods", "/", "a.zip">>, md5 |-> 1]
\* Its basename holds a character that is illegal in a file name.
ModB == [name |-> "B", url |-> <<"h", "/", "mods", "/", "b", ":", "1.zip">>, md5 |-> 2]
\* A second mod whose URL has the same basename as ModA's, other bytes.
ModC == [name |-> "C", url |-> <<"h", "/", "alt", "/", "a.zip", "?", "v2">>, md5 |-> 2]
\* A non-mod asset with ModA's basename and ModA's bytes.
AssetD == [name |-> "D", url |-> <<"h", "/", "others", "/", "a.zip">>, md5 |-> 1]

DescriptorPool == {ModA, ModB, ModC, AssetD}

\* The names a file of the Downloads directory may have: a file is an orphan
\* when the build does not list the descriptor it was downloaded for.
FileNames == {sanitize_filename(d.url) : d \in DescriptorPool}

\* Raw manifests: the entries' names are unique within one build.
Manifests ==
    {m \in UNION {[1..n -> DescriptorPool] : n \in 1..MaxMods} :
        \A i, j \in 1..Len(m) : i # j => m[i] # m[j]}

\* States of the Downloads directory.
Directories == UNION {[S -> Digests] : S \in SUBSET FileNames}

\* --------------------------------------------------------- fetch_mod_list
\* str.lower() on one token.
LowerTok(t) ==
    CASE t = "Forge" -> "forge"
      [] t = "Forges" -> "forges"
      [] t = "Others" -> "others"
      [] t = "Latest" -> "latest"
      [] OTHER -> t

Lower(s) == [i \in 1..Len(s) |-> LowerTok(s[i])]

IsForge(mod) == Contains(Lower(mod.url), <<"forges">>) /\ LowerTok(mod.name) = "forge"
IsOther(mod) == ~IsForge(mod) /\ Contains(Lower(mod.url), <<"others">>)
IsMod(mod) == ~IsForge(mod) /\ ~IsOther(mod)

\* mod.get("version", "unknown")
VersionOf(mod) == IF "version" \in DOMAIN mod THEN mod.version ELSE <<"unknown">>

\* version.replace("-", "."), line 86
Dotted(version) ==
    [i \in 1..Len(version) |-> IF version[i] = "-" THEN "." ELSE version[i]]

\* Lines 81-89: the loader descriptor made of a raw entry.
ForgeEntry(mod) ==
    [name |-> mod.name, url |-> mod.url, md5 |-> mod.md5,
     version |-> Dotted(VersionOf(mod))]

\* The three lists fetch_mod_list returns, each in the order of the raw list.
fetch_mod_list(mods) ==
    LET forges == SelectSeq(mods, IsForge) IN
    [mod_list |-> SelectSeq(mods, IsMod),
     non_mod_list |-> SelectSeq(mods, IsOther),
     forge_list |-> [i \in 1..Len(forges) |-> ForgeEntry(forges[i])]]

\* ----------------------------------------------------------- compare_mods
\* Whether some descriptor names this file and declares the digest it has.
IsValid(files, mods, filename) ==
    \E i \in 1..Len(mods) :
        /\ filename = sanitize_filename(mods[i].url)
        /\ files[filename] = mods[i].md5

\* The files the first loop of compare_mods removes.
InvalidFiles(files, mods) == {f \in DOMAIN files : ~IsValid(files, mods, f)}

\* The directory with the files of S removed.
Remove(files, S) == [f \in (DOMAIN files) \ S |-> files[f]]

\* A garbage pass that takes a file for valid as soon as a descriptor has its
\* name, whatever its digest.
GarbagePass_nameOnly(files, mods) ==
    Remove(files, {f \in DOMAIN files :
                     \A i \in 1..Len(mods) : f # sanitize_filename(mods[i].url)})

\* Lines 148-164: every file no descriptor validates is removed.
GarbagePass(files, mods) == Remove(files, InvalidFiles(files, mods))

\* Lines 172-187, for one descriptor: absent, or present with another digest.
NeedsDownload(files, mod) ==
    LET filename == sanitize_filename(mod.url) IN
    IF filename \in DOMAIN files
    THEN files[filename] # mod.md5
    ELSE TRUE

\* A diff pass that lists the files with a wrong digest and forgets the
\* absent ones.
DiffPass_presentOnly(files, mods) ==
    SelectSeq(mods, LAMBDA mod :
        /\ sanitize_filename(mod.url) \in DOMAIN files
        /\ files[sanitize_filename(mod.url)] # mod.md5)

\* Lines 172-187: the descriptors to download, in the order of the list.
DiffPass(files, mods) == SelectSeq(mods, LAMBDA mod : NeedsDownload(files, mod))

\* An orphan pass that goes by the digest of a file instead of its name.
OrphanPass_byDigest(existing, mods) ==
    {f \in DOMAIN existing : existing[f] \notin {mods[i].md5 : i \in 1..Len(mods)}}

\* Lines 190-192: the names of existing_mods that no descriptor has.
OrphanPass(existing, mods) ==
    {f \in DOMAIN existing : f \notin {sanitize_filename(mods[i].url) : i \in 1..Len(mods)}}

\* A compare_mods whose diff pass also removes the file it finds with a
\* digest other than the declared one.
compare_mods_diffRemoves(existing, mods, files) ==
    LET kept == GarbagePass(files, mods)
        listed == DiffPass(kept, mods)
    IN  [files |-> Remove(kept, {sanitize_filename(listed[i].url) : i \in 1..Len(listed)}),
         mods_to_download |-> listed,
         mods_to_remove |-> OrphanPass(existing, mods)]

\* compare_mods when nothing raises: the directory it leaves and its results.
compare_mods(existing, mods, files) ==
    LET kept == GarbagePass(files, mods) IN
    [files |-> kept,
     mods_to_download |-> DiffPass(kept, mods),
     mods_to_remove |-> OrphanPass(existing, mods)]

\* ------------------------------------------------------------------ main
AllMods == mod_list \o non_mod_list

\* main: update_running and not update_running.is_set()
Cancelled == ~update_running

NoCompare == [valid |-> FALSE, download |-> <<>>]

\* The resolution stage has not begun.
ResolveIdle ==
    /\ slugs = <<>>
    /\ available_mods = <<>>
    /\ unavailable_mods = <<>>
    /\ backup_available = <<>>
    /\ still_unavailable = <<>>
    /\ attached = <<>>
    /\ r_idx = 0
    /\ manifest_json = <<"not written">>
    /\ overrides = {}
    /\ archive_written = FALSE
    /\ log = {}
    /\ lookups = <<>>
    /\ last_resp = "none"
    /\ picked = <<>>

\* rate_limited(5), line 318, and min_interval, line 304, in ticks.
max_per_second == 5
min_interval == TickHz \div max_per_second

\* No call of fetch_mod_details has been made: last_called is [0.0], and the
\* epoch is long past.
RateIdle ==
    /\ clock = min_interval
    /\ last_called = 0
    /\ gate_pc = "idle"
    /\ wake = 0
    /\ req_start = -1
    /\ prev_end = -1

\* No outcome of a match procedure yet.
NoOutcome == [outcome |-> "none"]

\* No mod is being matched on its own.
MatchIdle ==
    /\ m_mod = <<>>
    /\ m_presp = <<>>
    /\ m_bresp = <<>>
    /\ m_primary = NoOutcome
    /\ m_backup = NoOutcome
    /\ m_pc = "idle"

\* fetch_build_details has not been called.
NoCall == [called |-> FALSE]

\* The start of main is over.
BuildIdle ==
    /\ BUILD_VERSION = "1.0"
    /\ requests = <<>>
    /\ fbd = NoCall

\* Stop has not been confirmed.
NoStop == [stopped |-> FALSE]

\* The build directory is as main's cleanup leaves it and no Stop was seen.
RunIdle ==
    /\ build_dir = {"minecraft", "curseforge"}
    /\ stop_at = NoStop

\* The window as start_gui leaves it, before any click.
GuiIdle ==
    /\ start_button = "normal"
    /\ stop_button = "hidden"
    /\ workers = [w \in 1..MaxRuns |-> "unborn"]
    /\ gui_pc = "idle"
    /\ dialog = FALSE

\* No executor has been made.
TaskIdle ==
    /\ tasks = <<>>
    /\ transient = {}
    /\ main_exc = FALSE

ExtraIdle == RunIdle /\ GuiIdle /\ TaskIdle

\* The stages modelled on their own are idle.
LaterIdle == MatchIdle /\ BuildIdle /\ ExtraIdle

\* The reconcile / fetch stage is over.
CacheIdle ==
    /\ build_mods = <<>>
    /\ downloads = <<>>
    /\ existing_mods = <<>>
    /\ mods_to_download = <<>>
    /\ mods_to_remove = {}
    /\ dl_idx = 0
    /\ downloaded_files = <<>>
    /\ pre_compare = <<>>
    /\ last_compare = NoCompare
    /\ prev_compare = NoCompare
    /\ dl_log = <<>>
    /\ cancel_at = -1

\* The reconcile / fetch stage is over and has left the files of dir.
CacheLeft(dir) ==
    /\ build_mods = <<>>
    /\ downloads = dir
    /\ existing_mods = <<>>
    /\ mods_to_download = <<>>
    /\ mods_to_remove = {}
    /\ dl_idx = 0
    /\ downloaded_files = <<>>
    /\ pre_compare = <<>>
    /\ last_compare = NoCompare
    /\ prev_compare = NoCompare
    /\ dl_log = <<>>
    /\ cancel_at = -1

\* What the actions of the reconcile / fetch stage leave alone.
OutsideCache == UNCHANGED <<resolveVars, rateVars, laterVars>>

InitCache ==
    /\ build_mods \in Manifests
    /\ downloads \in Directories
    /\ update_running = TRUE
    /\ mod_list = <<>>
    /\ non_mod_list = <<>>
    /\ forge_list = <<>>
    /\ existing_mods = <<>>
    /\ mods_to_download = <<>>
    /\ mods_to_remove = {}
    /\ dl_idx = 0
    /\ downloaded_files = <<>>
    /\ pc = "fetch_mod_list"
    /\ report = "none"
    /\ pre_compare = <<>>
    /\ last_compare = NoCompare
    /\ prev_compare = NoCompare
    /\ dl_log = <<>>
    /\ cancel_at = -1
    /\ ResolveIdle
    /\ RateIdle
    /\ LaterIdle

\* main, lines 725-728.
FetchModList ==
    /\ pc = "fetch_mod_list"
    /\ LET r == fetch_mod_list(build_mods) IN
        /\ mod_list' = r.mod_list
        /\ non_mod_list' = r.non_mod_list
        /\ forge_list' = r.forge_list
        /\ IF r.mod_list = <<>>
           THEN pc' = "done" /\ report' = "error013"
           ELSE pc' = "fetch_existing_mods" /\ report' = report
    /\ UNCHANGED <<build_mods, downloads, existing_mods, mods_to_download,
                   mods_to_remove, dl_idx, downloaded_files, update_running,
                   pre_compare, last_compare, prev_compare, dl_log, cancel_at>>
    /\ OutsideCache

\* main, lines 730-733, and fetch_existing_mods: name -> digest of every file.
FetchExistingMods ==
    /\ pc = "fetch_existing_mods"
    /\ existing_mods' = downloads
    /\ pc' = "compare_mods"
    /\ UNCHANGED <<build_mods, mod_list, non_mod_list, forge_list, downloads,
                   mods_to_download, mods_to_remove, dl_idx, downloaded_files,
                   update_running, report, pre_compare, last_compare,
                   prev_compare, dl_log, cancel_at>>
    /\ OutsideCache

\* main, lines 735-738, compare_mods returning normally.
CompareMods ==
    /\ pc = "compare_mods"
    /\ LET r == compare_mods(existing_mods, AllMods, downloads) IN
        /\ downloads' = r.files
        /\ mods_to_download' = r.mods_to_download
        /\ mods_to_remove' = r.mods_to_remove
    /\ pre_compare' = downloads
    /\ prev_compare' = last_compare
    /\ last_compare' = [valid |-> TRUE, download |-> mods_to_download']
    /\ pc' = "check_cancel"
    /\ UNCHANGED <<build_mods, mod_list, non_mod_list, forge_list, existing_mods, dl_idx,
                   downloaded_files, update_running, report, dl_log, cancel_at>>
    /\ OutsideCache

\* compare_mods when os.remove raises on an invalid file (lines 163, 203-205):
\* the invalid files listed before it are gone, the results are None, None
\* and main reports ERROR 016 (lines 736-738).
CompareModsRaises ==
    /\ pc = "compare_mods"
    /\ \E S \in SUBSET InvalidFiles(downloads, AllMods) :
        /\ S # InvalidFiles(downloads, AllMods)
        /\ downloads' = Remove(downloads, S)
    /\ pc' = "done"
    /\ report' = "error016"
    /\ UNCHANGED <<build_mods, mod_list, non_mod_list, forge_list, existing_mods,
                   mods_to_download, mods_to_remove, dl_idx, downloaded_files,
                   update_running, pre_compare, last_compare, prev_compare,
                   dl_log, cancel_at>>
    /\ OutsideCache

\* main, lines 741-746.
CheckCancel ==
    /\ pc = "check_cancel"
    /\ IF Cancelled
       THEN pc' = "done" /\ report' = "cancelled"
       ELSE /\ report' = report
            /\ pc' = IF mods_to_download # <<>> THEN "download_mods" ELSE "extract"
    /\ UNCHANGED <<build_mods, mod_list, non_mod_list, forge_list, downloads, existing_mods,
                   mods_to_download, mods_to_remove, dl_idx, downloaded_files,
                   update_running, pre_compare, last_compare, prev_compare,
                   dl_log, cancel_at>>
    /\ OutsideCache

\* --------------------------------------------------------- download_mods
\* download_mods, lines 209-218: the batch starts.
DownloadMods ==
    /\ pc = "download_mods"
    /\ dl_idx' = 1
    /\ downloaded_files' = <<>>
    /\ last_compare' = NoCompare
    /\ pc' = "download_items"
    /\ UNCHANGED <<build_mods, mod_list, non_mod_list, forge_list, downloads, existing_mods,
                   mods_to_download, mods_to_remove, update_running, report,
                   pre_compare, prev_compare, dl_log, cancel_at>>
    /\ OutsideCache

\* The item the loop of download_mods is at. Every descriptor of the model
\* has a URL and a digest (line 223).
AtItem == pc = "download_items" /\ dl_idx <= Len(mods_to_download)
Item == mods_to_download[dl_idx]
ItemFile == sanitize_filename(Item.url)

\* Lines 229-232: a file with the expected digest is already there.
AlreadyCached(files, mod) ==
    LET filename == sanitize_filename(mod.url) IN
    filename \in DOMAIN files /\ files[filename] = mod.md5

\* The directory with filename holding bytes of digest d.
WriteFile(files, filename, d) ==
    [f \in (DOMAIN files) \cup {filename} |-> IF f = filename THEN d ELSE files[f]]

\* Lines 246-251: the directory after the written file has been verified.
VerifyDownload(files, filename, expected_md5) ==
    IF files[filename] # expected_md5 THEN Remove(files, {filename}) ELSE files

\* What one pass of the loop leaves unchanged.
ItemFrame ==
    UNCHANGED <<build_mods, mod_list, non_mod_list, forge_list, existing_mods,
                   mods_to_download, mods_to_remove, update_running, report,
                   pre_compare, last_compare, prev_compare, cancel_at>>

\* Lines 229-232: continue.
DownloadSkip ==
    /\ AtItem
    /\ AlreadyCached(downloads, Item)
    /\ dl_idx' = dl_idx + 1
    /\ dl_log' = Append(dl_log, "skip")
    /\ pc' = pc
    /\ UNCHANGED <<downloads, downloaded_files>>
    /\ ItemFrame
    /\ OutsideCache

\* A download_mods that downloads every item, whatever the directory holds.
DownloadStream_always ==
    /\ AtItem
    /\ \E d \in Digests :
        LET written == WriteFile(downloads, ItemFile, d) IN
        /\ downloads' = VerifyDownload(written, ItemFile, Item.md5)
        /\ downloaded_files' =
              IF written[ItemFile] # Item.md5
              THEN downloaded_files
              ELSE Append(downloaded_files, ItemFile)
        /\ dl_log' = Append(dl_log, IF d = Item.md5 THEN "ok" ELSE "corrupt")
    /\ dl_idx' = dl_idx + 1
    /\ pc' = pc
    /\ ItemFrame
    /\ OutsideCache

\* Lines 238-251: the response is streamed to the file, the file verified:
\* kept and listed when its digest is the declared one, removed otherwise.
DownloadStream ==
    /\ AtItem
    /\ ~AlreadyCached(downloads, Item)
    /\ \E d \in Digests :
        LET written == WriteFile(downloads, ItemFile, d) IN
        /\ downloads' = VerifyDownload(written, ItemFile, Item.md5)
        /\ downloaded_files' =
              IF written[ItemFile] # Item.md5
              THEN downloaded_files
              ELSE Append(downloaded_files, ItemFile)
        /\ dl_log' = Append(dl_log, IF d = Item.md5 THEN "ok" ELSE "corrupt")
    /\ dl_idx' = dl_idx + 1
    /\ pc' = pc
    /\ ItemFrame
    /\ OutsideCache

\* A download_mods in which the RequestException of one item reaches the
\* handler of the whole batch.
DownloadHttpError_aborts ==
    /\ AtItem
    /\ ~AlreadyCached(downloads, Item)
    /\ dl_log' = Append(dl_log, "http_error")
    /\ pc' = "done"
    /\ report' = "cancelled"
    /\ UNCHANGED <<build_mods, mod_list, non_mod_list, forge_list, downloads, existing_mods,
                   mods_to_download, mods_to_remove, dl_idx, downloaded_files,
                   update_running, pre_compare, last_compare, prev_compare,
                   cancel_at>>
    /\ OutsideCache

\* Lines 238-239, 252-253: requests.get or raise_for_status raises.
DownloadHttpError ==
    /\ AtItem
    /\ ~AlreadyCached(downloads, Item)
    /\ dl_idx' = dl_idx + 1
    /\ dl_log' = Append(dl_log, "http_error")
    /\ pc' = pc
    /\ UNCHANGED <<downloads, downloaded_files>>
    /\ ItemFrame
    /\ OutsideCache

\* Lines 241-243, 252-253: iter_content raises in the middle of the stream;
\* the file holds the bytes written so far.
DownloadStreamError ==
    /\ AtItem
    /\ ~AlreadyCached(downloads, Item)
    /\ \E d \in Digests \ {Item.md5} :
        downloads' = WriteFile(downloads, ItemFile, d)
    /\ dl_idx' = dl_idx + 1
    /\ dl_log' = Append(dl_log, "stream_error")
    /\ pc' = pc
    /\ UNCHANGED downloaded_files
    /\ ItemFrame
    /\ OutsideCache

\* Lines 241, 258-260 and main 748-750: open() raises an OSError, which is no
\* RequestException: download_mods returns None and main reports cancellation.
DownloadRaises ==
    /\ AtItem
    /\ ~AlreadyCached(downloads, Item)
    /\ dl_log' = Append(dl_log, "os_error")
    /\ pc' = "done"
    /\ report' = "cancelled"
    /\ UNCHANGED <<build_mods, mod_list, non_mod_list, forge_list, downloads, existing_mods,
                   mods_to_download, mods_to_remove, dl_idx, downloaded_files,
                   update_running, pre_compare, last_compare, prev_compare,
                   cancel_at>>
    /\ OutsideCache

\* Line 257 and main 748-750: the loop is over, download_mods returns its list.
DownloadReturn ==
    /\ pc = "download_items"
    /\ dl_idx > Len(mods_to_download)
    /\ IF Cancelled
       THEN pc' = "done" /\ report' = "cancelled"
       ELSE pc' = "extract" /\ report' = report
    /\ UNCHANGED <<build_mods, mod_list, non_mod_list, forge_list, downloads, existing_mods,
                   mods_to_download, mods_to_remove, dl_idx, downloaded_files,
                   update_running, pre_compare, last_compare, prev_compare,
                   dl_log, cancel_at>>
    /\ OutsideCache

\* ------------------------------------------------------------------- GUI
InBatch == pc \in {"download_mods", "download_items"}

\* gui.stop_update, confirmed: the event is cleared while a run is going on.
StopUpdate ==
    /\ update_running
    /\ pc \notin {"done", "extract"}
    /\ update_running' = FALSE
    /\ cancel_at' = IF InBatch THEN Len(dl_log) ELSE cancel_at
    /\ UNCHANGED <<build_mods, mod_list, non_mod_list, forge_list, downloads, existing_mods,
                   mods_to_download, mods_to_remove, dl_idx, downloaded_files,
                   pc, report, pre_compare, last_compare, prev_compare, dl_log>>
    /\ OutsideCache

\* The run has ended (or gone on to the later stages, which leave the
\* Downloads directory alone) and main is run again on the same build:
\* gui.start_update sets the event, main starts over.
NewRun ==
    /\ pc \in {"done", "extract"}
    /\ update_running' = TRUE
    /\ mod_list' = <<>>
    /\ non_mod_list' = <<>>
    /\ forge_list' = <<>>
    /\ existing_mods' = <<>>
    /\ mods_to_download' = <<>>
    /\ mods_to_remove' = {}
    /\ pc' = "fetch_mod_list"
    /\ report' = "none"
    /\ dl_idx' = 0
    /\ downloaded_files' = <<>>
    /\ dl_log' = <<>>
    /\ cancel_at' = -1
    /\ UNCHANGED <<build_mods, downloads, pre_compare, last_compare, prev_compare>>
    /\ OutsideCache

NextCache ==
    \/ FetchModList
    \/ FetchExistingMods
    \/ CompareMods
    \/ CompareModsRaises
    \/ CheckCancel
    \/ DownloadMods
    \/ DownloadSkip
    \/ DownloadStream
    \/ DownloadHttpError
    \/ DownloadStreamError
    \/ DownloadRaises
    \/ DownloadReturn
    \/ StopUpdate
    \/ NewRun

SpecCache == InitCache /\ [][NextCache]_vars

\* ======================================================================
\* Claims about the reconcile / fetch stage (specification SpecCache)
\* ======================================================================

\* compare_mods has just returned normally to main.
Compared == pc = "check_cancel"

\* download_mods has returned its list (not None) to main.
Returned == pc \in {"extract", "done"} /\ dl_idx > Len(mods_to_download)

\* The names the descriptors give their files.
ExpectedNames == {sanitize_filename(AllMods[i].url) : i \in 1..Len(AllMods)}

\* Every item of the download set was requested, streamed and verified.
AllVerified ==
    /\ Len(dl_log) = Len(mods_to_download)
    /\ \A k \in 1..Len(dl_log) : dl_log[k] = "ok"

\* C1: after compare_mods and a download_mods run in which every item of the
\* download set was downloaded and verified, every descriptor of
\* mod_list + non_mod_list has a file at its sanitized name whose MD5 is the
\* declared md5 (also when two descriptors sanitize to the same name).
C1_EveryDescriptorCached ==
    (Returned /\ AllVerified) =>
        \A i \in 1..Len(AllMods) :
            LET filename == sanitize_filename(AllMods[i].url) IN
            filename \in DOMAIN downloads /\ downloads[filename] = AllMods[i].md5

\* C2 (as stated): a compare_mods that follows another compare_mods, with the
\* manifest unchanged and no download in between, returns an empty download set.
C2_SecondRunEmpty ==
    (Compared /\ prev_compare.valid) => mods_to_download = <<>>

\* C2 (amended): a compare_mods that follows another compare_mods, with the
\* manifest unchanged and no download in between, returns the download set the
\* first one returned and removes no file.
C2_SecondRunSame ==
    (Compared /\ prev_compare.valid) =>
        /\ mods_to_download = prev_compare.download
        /\ downloads = pre_compare

\* A second compare_mods in a row has returned a download set that is not empty.
C2_Witness ==
    Compared /\ prev_compare.valid /\ mods_to_download # <<>>

\* C3: when compare_mods returns normally, the directory holds no file that
\* has a descriptor's sanitized name and a digest that no descriptor of that
\* name declares.
C3_NoInvalidNamedFile ==
    Compared =>
        \A f \in DOMAIN downloads :
            f \in ExpectedNames =>
                \E i \in 1..Len(AllMods) :
                    /\ sanitize_filename(AllMods[i].url) = f
                    /\ AllMods[i].md5 = downloads[f]

\* compare_mods has returned after removing a file that had a descriptor's
\* name and a digest no descriptor of that name declares.
C3_Witness ==
    /\ Compared
    /\ \E f \in DOMAIN pre_compare :
        /\ f \in ExpectedNames
        /\ f \notin DOMAIN downloads
        /\ \A i \in 1..Len(AllMods) :
            sanitize_filename(AllMods[i].url) = f => AllMods[i].md5 # pre_compare[f]

\* C4: an item whose downloaded bytes have another MD5 than the declared one
\* has its file removed before the next item is processed, and its path is not
\* in the list download_mods returns.
C4_CorruptRemovedAndUnlisted ==
    \A k \in 1..Len(dl_log) :
        dl_log[k] = "corrupt" =>
            LET filename == sanitize_filename(mods_to_download[k].url) IN
            /\ (k = Len(dl_log) => filename \notin DOMAIN downloads)
            /\ (Returned => filename \notin Range(downloaded_files))

\* C7: once Stop has been confirmed in the middle of a batch, after k >= 1
\* items, download_mods starts no further download: every later pass of its
\* loop issues no request.
C7_NoDownloadAfterCancel ==
    cancel_at >= 1 =>
        \A k \in (cancel_at + 1)..Len(dl_log) : dl_log[k] = "skip"

\* What C10 expects of a descriptor: its file is absent, or has another digest.
C10_Expected(files, mod) ==
    \/ sanitize_filename(mod.url) \notin DOMAIN files
    \/ files[sanitize_filename(mod.url)] # mod.md5

\* C10: the download set compare_mods returns is exactly the descriptors of
\* mod_list + non_mod_list, in the order of that list, whose file is absent
\* from the directory or has another MD5 (of the directory as compare_mods
\* found it, and as it left it); with A cached with the right digest and B
\* missing, the download set is [B] and the orphan set is empty.
C10_DownloadSetExact ==
    Compared =>
        /\ mods_to_download = SelectSeq(AllMods, LAMBDA mod : C10_Expected(pre_compare, mod))
        /\ mods_to_download = SelectSeq(AllMods, LAMBDA mod : C10_Expected(downloads, mod))
        /\ (/\ build_mods = <<ModA, ModB>>
            /\ pre_compare = [f \in {sanitize_filename(ModA.url)} |-> ModA.md5])
           => (mods_to_download = <<ModB>> /\ mods_to_remove = {})

\* compare_mods has returned for the build [A, B] with A cached and B missing.
C10_Witness ==
    /\ Compared
    /\ build_mods = <<ModA, ModB>>
    /\ pre_compare = [f \in {sanitize_filename(ModA.url)} |-> ModA.md5]
    /\ mods_to_download = <<ModB>>

\* ======================================================================
\* Resolution stage: slugs, primary and backup lookups (main 771-805)
\* ======================================================================

\* --------------------------------------------------------- str operations
\* str.strip(): leading and trailing blanks go.
RECURSIVE LStrip(_)
LStrip(s) == IF s # <<>> /\ Head(s) = " " THEN LStrip(Tail(s)) ELSE s

RECURSIVE RStrip(_)
RStrip(s) ==
    IF s # <<>> /\ s[Len(s)] = " " THEN RStrip(SubSeq(s, 1, Len(s) - 1)) ELSE s

Strip(s) == RStrip(LStrip(s))

\* str.lower() on one character.
LowerChar(c) ==
    CASE c = "M" -> "m"
      [] c = "V" -> "v"
      [] OTHER -> c

LowerStr(s) == [i \in 1..Len(s) |-> LowerChar(s[i])]

RECURSIVE ReplaceWithEmpty(_, _)
\* s.replace(old, ''): the occurrences of old, left to right, are cut out.
ReplaceWithEmpty(s, old) ==
    IF old = <<>> \/ Len(s) < Len(old) THEN s
    ELSE IF SubSeq(s, 1, Len(old)) = old
         THEN ReplaceWithEmpty(SubSeq(s, Len(old) + 1, Len(s)), old)
         ELSE <<Head(s)>> \o ReplaceWithEmpty(Tail(s), old)

\* s.replace('-', '').replace('.', '')
Clean(s) == ReplaceWithEmpty(ReplaceWithEmpty(s, <<"-">>), <<".">>)

RECURSIVE Split(_, _)
\* path.split(sep) for a path whose segments are single tokens: the segments,
\* "" for an empty one.
Split(s, sep) ==
    IF s = <<>> THEN <<"">>
    ELSE IF Head(s) = sep THEN <<"">> \o Split(Tail(s), sep)
    ELSE IF Len(s) = 1 THEN <<Head(s)>>
    ELSE <<Head(s)>> \o Split(SubSeq(s, 3, Len(s)), sep)

\* --------------------------------------------------- extract_slug_from_url
\* The tokens in which "curseforge.com" occurs.
CurseForgeHosts == {"www.curseforge.com", "legacy.curseforge.com"}

\* "curseforge.com" in mod_link
MentionsCurseForge(link) == \E i \in 1..Len(link) : link[i] \in CurseForgeHosts

\* urlparse(url).path of scheme "//" host path...: what follows the host.
UrlPath(url) == SubSeq(url, 4, Len(url))

NoSlug == "<none>"
IndexError == "<IndexError>"

\* extract_slug_from_url: the slug, NoSlug for None, IndexError when the
\* subscript is out of range.
extract_slug_from_url(url) ==
    LET path_parts == Split(UrlPath(url), "/") IN
    IF Len(path_parts) > 2 /\ path_parts[2] = "minecraft" /\ path_parts[3] = "mc-mods"
    THEN IF Len(path_parts) >= 4 THEN path_parts[4] ELSE IndexError
    ELSE IF Len(path_parts) > 1 /\ path_parts[2] = "projects"
    THEN IF Len(path_parts) >= 3 THEN path_parts[3] ELSE IndexError
    ELSE NoSlug

\* What extract_slugs_from_mod_list does with one mod: its slug, or NoSlug
\* (no link, another site, or an empty slug), or IndexError.
SlugOf(mod) ==
    IF mod.link # <<>> /\ MentionsCurseForge(mod.link)
    THEN LET slug == extract_slug_from_url(mod.link) IN
         IF slug = "" THEN NoSlug ELSE slug
    ELSE NoSlug

\* extract_slugs_from_mod_list: the dictionary name -> slug.
extract_slugs_from_mod_list(mods) ==
    LET named == {i \in 1..Len(mods) : SlugOf(mods[i]) # NoSlug} IN
    [n \in {mods[i].name : i \in named} |->
        SlugOf(CHOOSE m \in {mods[i] : i \in named} : m.name = n)]

\* ------------------------------------------------------ metadata responses
\* build_details["minecraft"], the target platform version, and another one.
minecraft_version == <<"1", ".", "7">>
OtherGameVersion == <<"1", ".", "8">>

\* Longest file list of a metadata response.
MaxFiles == 2

\* The files a project may list: game version, file name, file id.
Catalog ==
    {[gameVersion |-> minecraft_version, name |-> <<"M", "-", "2", ".", "0">>, fileId |-> 11],
     [gameVersion |-> OtherGameVersion, name |-> <<"m", "-", "2", ".", "0">>, fileId |-> 12],
     [gameVersion |-> minecraft_version, name |-> <<"m", "-", "3", ".", "1">>, fileId |-> 13],
     [gameVersion |-> OtherGameVersion, name |-> <<"m", "-", "3", ".", "1">>, fileId |-> 14]}

FileLists == UNION {[1..n -> Catalog] : n \in 0..MaxFiles}

\* A file as the primary endpoint lists it: {versions, name, id}; the keys
\* gameVersions, filename and fileId are absent.
PrimaryFile(e) ==
    [gameVersions |-> <<>>, versions |-> <<e.gameVersion>>,
     filename |-> <<>>, name |-> e.name, fileId |-> 0, id |-> e.fileId]

\* A file of the backup endpoint's latestFilesIndexes: {gameVersion, name, fileId}.
BackupFile(e) == e

\* What an endpoint may answer: 200 with a well-formed body, 200 with a body
\* of another shape, 404, another status, or no answer (RequestException).
ResponseKinds == {"ok", "malformed", "not_found", "error", "exception"}

Responses ==
    {[kind |-> "ok", files |-> fl] : fl \in FileLists}
        \cup {[kind |-> k, files |-> <<>>] : k \in ResponseKinds \ {"ok"}}

\* The project id the index has for a slug.
ProjectId(slug) == IF slug = "jei" THEN 100 ELSE 200

\* ------------------------------------------------------- fetch_mod_details
\* Lines 329-337: the backup body in the shape of the primary one.
Transpose(files) ==
    [i \in 1..Len(files) |->
        [gameVersions |-> <<files[i].gameVersion>>, versions |-> <<>>,
         filename |-> files[i].name, name |-> <<>>,
         fileId |-> files[i].fileId, id |-> 0]]

\* fetch_mod_details: "data" (details, source), "none" (None, source),
\* "false" (False, "error"), "bad" (a body that is no such dictionary, handed
\* on as it is), "raise" (the transposition raises a KeyError).
fetch_mod_details(slug, use_backup, resp) ==
    LET source == IF use_backup THEN "backup" ELSE "primary" IN
    CASE resp.kind = "ok" ->
            [result |-> "data", source |-> source, id |-> ProjectId(slug),
             files |-> IF use_backup
                       THEN Transpose([i \in 1..Len(resp.files) |-> BackupFile(resp.files[i])])
                       ELSE [i \in 1..Len(resp.files) |-> PrimaryFile(resp.files[i])]]
      [] resp.kind = "malformed" ->
            [result |-> IF use_backup THEN "raise" ELSE "bad", source |-> source,
             id |-> 0, files |-> <<>>]
      [] resp.kind = "not_found" /\ use_backup ->
            [result |-> "false", source |-> "error", id |-> 0, files |-> <<>>]
      [] OTHER ->
            [result |-> "none", source |-> source, id |-> 0, files |-> <<>>]

\* ------------------------------------------------------------- matching
\* "for file in files: if ...: break": the least of the indices that pass the
\* test, or 0.
FirstFile(passing) ==
    IF passing = {} THEN 0
    ELSE CHOOSE i \in passing : \A j \in passing : i <= j

\* a or b, for lists and for numbers
OrSeq(a, b) == IF a # <<>> THEN a ELSE b
OrNum(a, b) == IF a # 0 THEN a ELSE b

\* check_mod_availability, lines 488-490.
GameVersionsOf(file) == OrSeq(file.gameVersions, file.versions)
FileNameOf(file) == LowerStr(Strip(OrSeq(file.filename, file.name)))
FileIdOf(file) == OrNum(file.fileId, file.id)

\* mod["version"].strip().lower()
ModVersion(mod) == LowerStr(Strip(mod.version))

\* check_mod_availability, lines 501-506.
version_patterns(mod_version, mc) ==
    {mod_version, mc \o mod_version, Clean(mod_version), ReplaceWithEmpty(mod_version, mc)}

\* A primary match that does not look at the file's game versions.
PrimaryMatches_anyPlatform(file, mod_version, mc) ==
    \E pattern \in version_patterns(mod_version, mc) :
        Contains(Clean(FileNameOf(file)), pattern)

\* check_mod_availability, lines 495-516: the file lists the target version
\* and one of the patterns occurs in its cleaned name.
PrimaryMatches(file, mod_version, mc) ==
    /\ mc \in Range(GameVersionsOf(file))
    /\ \E pattern \in version_patterns(mod_version, mc) :
        Contains(Clean(FileNameOf(file)), pattern)

\* check_mod_availability, lines 486-519: the index of the file it takes, or 0.
PrimarySelect(files, mod, mc) ==
    FirstFile({i \in 1..Len(files) : PrimaryMatches(files[i], ModVersion(mod), mc)})

\* backup_check_mod_availability, lines 412-422.
BackupExact(files, mod, mc) ==
    FirstFile({i \in 1..Len(files) :
        /\ mc \in Range(files[i].gameVersions)
        /\ Contains(LowerStr(Strip(files[i].filename)), ModVersion(mod))})

\* A fallback that gives up when no file name holds the mod's version.
BackupClosest_nameOnly(files, mod, mc) ==
    FirstFile({i \in 1..Len(files) :
        Contains(LowerStr(Strip(files[i].filename)), ModVersion(mod))})

\* backup_check_mod_availability, lines 426-438.
BackupClosest(files, mod, mc) ==
    LET by_name == FirstFile({i \in 1..Len(files) :
                        Contains(LowerStr(Strip(files[i].filename)), ModVersion(mod))})
        by_platform == FirstFile({i \in 1..Len(files) : mc \in Range(files[i].gameVersions)})
    IN  IF by_name # 0 THEN by_name ELSE by_platform

\* ------------------------------------------------------ the mods resolved
CurseLink(kind, slug) ==
    <<"https:", "//", "www.curseforge.com", "/">> \o kind \o <<"/", slug>>

\* A mod of the index, at version 2.0.
ModJei == [name |-> "Jei", version |-> <<"2", ".", "0">>,
           link |-> CurseLink(<<"minecraft", "/", "mc-mods">>, "jei"),
           url |-> <<"h", "/", "mods", "/", "jei.zip">>, md5 |-> 1]
\* A mod of the index whose version string is the target platform version.
ModWaila == [name |-> "Waila", version |-> <<" ", "1", ".", "7">>,
             link |-> CurseLink(<<"projects">>, "waila"),
             url |-> <<"h", "/", "mods", "/", "waila.zip">>, md5 |-> 2]
\* A mod with no homepage link.
ModOwn == [name |-> "Own", version |-> <<"V", "3", ".", "1">>, link |-> <<>>,
           url |-> <<"h", "/", "mods", "/", "own.zip">>, md5 |-> 2]
\* A mod whose link stops at the section of the index, with no project in it.
ModBad == [name |-> "Bad", version |-> <<"2", ".", "0">>,
           link |-> <<"https:", "//", "www.curseforge.com", "/", "minecraft", "/", "mc-mods">>,
           url |-> <<"h", "/", "mods", "/", "bad.zip">>, md5 |-> 1]

ResolvePool == {ModJei, ModWaila, ModOwn, ModBad}

\* The mod lists main may hand to the resolution: never empty (line 726).
ModLists ==
    {m \in UNION {[1..n -> ResolvePool] : n \in 1..MaxMods} :
        \A i, j \in 1..Len(m) : i # j => m[i] # m[j]}

\* dict.get(name): the slug, or NoSlug.
SlugGet(name) == IF name \in DOMAIN slugs THEN slugs[name] ELSE NoSlug

\* f with key k set to v.
Put(f, k, v) == [x \in (DOMAIN f) \cup {k} |-> IF x = k THEN v ELSE f[x]]

\* What the actions of the resolution stage leave alone.
OutsideResolve == UNCHANGED <<cacheOnlyVars, rateVars, laterVars>>

\* The Downloads directory holding the verified files of the descriptors of
\* mods whose names are in S.
CachedFiles(mods, S) ==
    [f \in {sanitize_filename(mods[i].url) : i \in {j \in 1..Len(mods) : mods[j].name \in S}}
        |-> (CHOOSE m \in Range(mods) : sanitize_filename(m.url) = f).md5]

NamesOf(mods) == {mods[i].name : i \in 1..Len(mods)}

\* A build without non-mod assets, every file of which was downloaded.
InitResolve ==
    /\ mod_list \in ModLists
    /\ non_mod_list = <<>>
    /\ forge_list = <<>>
    /\ update_running = TRUE
    /\ pc = "extract_slugs"
    /\ report = "none"
    /\ CacheLeft(CachedFiles(mod_list, NamesOf(mod_list)))
    /\ ResolveIdle
    /\ RateIdle
    /\ LaterIdle

\* main line 776, extract_slugs_from_mod_list returning its dictionary.
ExtractSlugs ==
    /\ pc = "extract_slugs"
    /\ \A i \in 1..Len(mod_list) : SlugOf(mod_list[i]) # IndexError
    /\ slugs' = extract_slugs_from_mod_list(mod_list)
    /\ log' = log \cup {[code |-> "020", mod |-> mod_list[i].name] :
                          i \in {j \in 1..Len(mod_list) :
                                    ~(mod_list[j].link # <<>> /\ MentionsCurseForge(mod_list[j].link))}}
                  \cup {[code |-> "019", mod |-> mod_list[i].name] :
                          i \in {j \in 1..Len(mod_list) :
                                    /\ mod_list[j].link # <<>>
                                    /\ MentionsCurseForge(mod_list[j].link)
                                    /\ SlugOf(mod_list[j]) = NoSlug}}
    /\ r_idx' = 1
    /\ pc' = "primary"
    /\ UNCHANGED <<mod_list, non_mod_list, forge_list, update_running, report, available_mods,
                   unavailable_mods, backup_available, still_unavailable, attached,
                   manifest_json, overrides, archive_written, lookups, last_resp, picked>>
    /\ OutsideResolve

\* Lines 353/355 raise an IndexError, which main's handler (809-811) reports.
ExtractSlugsRaises ==
    /\ pc = "extract_slugs"
    /\ \E i \in 1..Len(mod_list) : SlugOf(mod_list[i]) = IndexError
    /\ pc' = "done"
    /\ report' = "program_fault"
    /\ UNCHANGED <<mod_list, non_mod_list, forge_list, update_running, resolveVars>>
    /\ OutsideResolve

\* ------------------------------------------------- check_mod_availability
AtPrimary == pc = "primary" /\ r_idx <= Len(mod_list)

\* Lines 469-472: no slug, the mod is unavailable.
PrimaryNoSlug ==
    /\ AtPrimary
    /\ SlugGet(mod_list[r_idx].name) = NoSlug
    /\ unavailable_mods' = Append(unavailable_mods, mod_list[r_idx].name)
    /\ r_idx' = r_idx + 1
    /\ UNCHANGED <<mod_list, non_mod_list, forge_list, update_running, pc, report, slugs,
                   available_mods, backup_available, still_unavailable, attached,
                   manifest_json, overrides, archive_written, log, lookups, last_resp, picked>>
    /\ OutsideResolve

\* What check_mod_availability does with one mod that has a slug, given the
\* endpoint's answer: "resolved" with a file, "unavailable", or "raise".
check_one(mod, slug, resp, mc) ==
    LET d == fetch_mod_details(slug, FALSE, resp)
        i == PrimarySelect(d.files, mod, mc)
    IN  CASE d.result = "bad" -> [outcome |-> "raise", id |-> 0, file |-> <<>>, said |-> {}]
          [] d.result = "none" ->
                [outcome |-> "unavailable", id |-> 0, file |-> <<>>,
                 said |-> IF resp.kind = "not_found" THEN {"021"} ELSE {}]
          [] d.result = "data" /\ i # 0 ->
                [outcome |-> "resolved", id |-> d.id, file |-> d.files[i], said |-> {}]
          [] OTHER ->
                [outcome |-> "unavailable", id |-> 0, file |-> <<>>, said |-> {"021"}]

\* Lines 474-523: the lookup of one mod and what comes of it.
PrimaryLookup ==
    /\ AtPrimary
    /\ SlugGet(mod_list[r_idx].name) # NoSlug
    /\ \E resp \in Responses :
        LET mod == mod_list[r_idx]
            r == check_one(mod, SlugGet(mod.name), resp, minecraft_version)
        IN  /\ lookups' = Append(lookups, [mod |-> mod.name, api |-> "primary"])
            /\ last_resp' = resp.kind
            /\ log' = log \cup {[code |-> c, mod |-> mod.name] : c \in r.said}
            /\ CASE r.outcome = "resolved" ->
                        /\ available_mods' = Append(available_mods, mod.name)
                        /\ attached' = Put(attached, mod.name,
                                           [projectID |-> r.id, fileID |-> FileIdOf(r.file)])
                        /\ picked' = Put(picked, mod.name,
                                         [gameVersions |-> GameVersionsOf(r.file),
                                          fileId |-> FileIdOf(r.file),
                                          tier |-> "match", api |-> "primary"])
                        /\ r_idx' = r_idx + 1
                        /\ UNCHANGED <<unavailable_mods, pc, report>>
                 [] r.outcome = "unavailable" ->
                        /\ unavailable_mods' = Append(unavailable_mods, mod.name)
                        /\ r_idx' = r_idx + 1
                        /\ UNCHANGED <<available_mods, attached, picked, pc, report>>
                 [] OTHER ->
                        \* lines 525-527 return None, None; len(None) at line 788
                        \* raises, and main's handler (809-811) reports it
                        /\ pc' = "done"
                        /\ report' = "program_fault"
                        /\ UNCHANGED <<available_mods, unavailable_mods, attached,
                                       picked, r_idx>>
    /\ UNCHANGED <<mod_list, non_mod_list, forge_list, update_running, slugs, backup_available,
                   still_unavailable, manifest_json, overrides, archive_written>>
    /\ OutsideResolve

\* Line 529 and main 779-781: the primary pass is over.
PrimaryReturn ==
    /\ pc = "primary"
    /\ r_idx > Len(mod_list)
    /\ pc' = IF unavailable_mods # <<>> THEN "backup" ELSE "tally"
    /\ r_idx' = 1
    /\ UNCHANGED <<mod_list, non_mod_list, forge_list, update_running, report, slugs,
                   available_mods, unavailable_mods, backup_available,
                   still_unavailable, attached, manifest_json, overrides, archive_written,
                   log, lookups, last_resp, picked>>
    /\ OutsideResolve

\* ------------------------------------------ backup_check_mod_availability
ModNamed(name) == CHOOSE m \in Range(mod_list) : m.name = name

AtBackup == pc = "backup" /\ r_idx <= Len(unavailable_mods)

\* Lines 396-399: no slug, the mod stays unavailable; the loop goes on.
BackupNoSlug ==
    /\ AtBackup
    /\ SlugGet(unavailable_mods[r_idx]) = NoSlug
    /\ still_unavailable' = Append(still_unavailable, unavailable_mods[r_idx])
    /\ r_idx' = r_idx + 1
    /\ UNCHANGED <<mod_list, non_mod_list, forge_list, update_running, pc, report, slugs,
                   available_mods, unavailable_mods, backup_available, attached,
                   manifest_json, overrides, archive_written, log, lookups, last_resp, picked>>
    /\ OutsideResolve

\* A backup pass that goes on to the next mod when the endpoint has no such
\* slug, as it does for a mod without a slug.
backup_check_one_skips404(mod, slug, resp, mc) ==
    LET d == fetch_mod_details(slug, TRUE, resp)
        exact == BackupExact(d.files, mod, mc)
        closest == BackupClosest(d.files, mod, mc)
    IN  CASE d.result = "raise" ->
                [outcome |-> "raise", id |-> 0, file |-> <<>>, tier |-> "", said |-> {}]
          [] d.source = "error" ->
                [outcome |-> "unavailable", id |-> 0, file |-> <<>>, tier |-> "", said |-> {"022"}]
          [] d.result = "data" /\ d.source = "backup" /\ exact # 0 ->
                [outcome |-> "resolved", id |-> d.id, file |-> d.files[exact],
                 tier |-> "match", said |-> {}]
          [] d.result = "data" /\ d.source = "backup" /\ closest # 0 ->
                [outcome |-> "resolved", id |-> d.id, file |-> d.files[closest],
                 tier |-> "closest", said |-> {"023"}]
          [] OTHER ->
                [outcome |-> "abort", id |-> 0, file |-> <<>>, tier |-> "", said |-> {"022"}]

\* A backup pass that leaves a mod unavailable and goes on when no file of
\* the list matches it.
backup_check_one_keepsUnmatched(mod, slug, resp, mc) ==
    LET d == fetch_mod_details(slug, TRUE, resp)
        exact == BackupExact(d.files, mod, mc)
        closest == BackupClosest(d.files, mod, mc)
    IN  CASE d.result = "raise" ->
                [outcome |-> "raise", id |-> 0, file |-> <<>>, tier |-> "", said |-> {}]
          [] d.source = "error" ->
                [outcome |-> "abort", id |-> 0, file |-> <<>>, tier |-> "", said |-> {"022"}]
          [] d.result = "data" /\ d.source = "backup" /\ exact # 0 ->
                [outcome |-> "resolved", id |-> d.id, file |-> d.files[exact],
                 tier |-> "match", said |-> {}]
          [] d.result = "data" /\ d.source = "backup" /\ closest # 0 ->
                [outcome |-> "resolved", id |-> d.id, file |-> d.files[closest],
                 tier |-> "closest", said |-> {"023"}]
          [] d.result = "data" /\ d.source = "backup" ->
                [outcome |-> "unavailable", id |-> 0, file |-> <<>>, tier |-> "", said |-> {"022"}]
          [] OTHER ->
                [outcome |-> "abort", id |-> 0, file |-> <<>>, tier |-> "", said |-> {"022"}]

\* What backup_check_mod_availability does with one mod that has a slug, given
\* the endpoint's answer (lines 401-455): "raise" (the KeyError of line 331
\* goes up), "abort" (return False, False: lines 404, 449, 455), or "resolved"
\* with the file of the first loop ("match") or of the fallback ("closest",
\* which prints ERROR 023).
backup_check_one(mod, slug, resp, mc) ==
    LET d == fetch_mod_details(slug, TRUE, resp)
        exact == BackupExact(d.files, mod, mc)
        closest == BackupClosest(d.files, mod, mc)
    IN  CASE d.result = "raise" ->
                [outcome |-> "raise", id |-> 0, file |-> <<>>, tier |-> "", said |-> {}]
          [] d.source = "error" ->
                [outcome |-> "abort", id |-> 0, file |-> <<>>, tier |-> "", said |-> {"022"}]
          [] d.result = "data" /\ d.source = "backup" /\ exact # 0 ->
                [outcome |-> "resolved", id |-> d.id, file |-> d.files[exact],
                 tier |-> "match", said |-> {}]
          [] d.result = "data" /\ d.source = "backup" /\ closest # 0 ->
                [outcome |-> "resolved", id |-> d.id, file |-> d.files[closest],
                 tier |-> "closest", said |-> {"023"}]
          [] OTHER ->
                [outcome |-> "abort", id |-> 0, file |-> <<>>, tier |-> "", said |-> {"022"}]

\* Lines 401-455 for one mod, and main 782-783 or 809-811 when the pass ends.
BackupLookup ==
    /\ AtBackup
    /\ SlugGet(unavailable_mods[r_idx]) # NoSlug
    /\ \E resp \in Responses :
        LET mod == ModNamed(unavailable_mods[r_idx])
            r == backup_check_one(mod, SlugGet(mod.name), resp, minecraft_version)
        IN  /\ lookups' = Append(lookups, [mod |-> mod.name, api |-> "backup"])
            /\ last_resp' = resp.kind
            /\ log' = log \cup {[code |-> c, mod |-> mod.name] : c \in r.said}
            /\ CASE r.outcome = "resolved" ->
                        /\ backup_available' = Append(backup_available, mod.name)
                        /\ attached' = Put(attached, mod.name,
                                           [projectID |-> r.id, fileID |-> r.file.fileId])
                        /\ picked' = Put(picked, mod.name,
                                         [gameVersions |-> r.file.gameVersions,
                                          fileId |-> r.file.fileId,
                                          tier |-> r.tier, api |-> "backup"])
                        /\ r_idx' = r_idx + 1
                        /\ UNCHANGED <<still_unavailable, pc, report>>
                 [] r.outcome = "unavailable" ->
                        /\ still_unavailable' = Append(still_unavailable, mod.name)
                        /\ r_idx' = r_idx + 1
                        /\ UNCHANGED <<backup_available, attached, picked, pc, report>>
                 [] r.outcome = "abort" ->
                        /\ pc' = "done"
                        /\ report' = "resolution_aborted"
                        /\ UNCHANGED <<backup_available, still_unavailable, attached,
                                       picked, r_idx>>
                 [] OTHER ->
                        /\ pc' = "done"
                        /\ report' = "program_fault"
                        /\ UNCHANGED <<backup_available, still_unavailable, attached,
                                       picked, r_idx>>
    /\ UNCHANGED <<mod_list, non_mod_list, forge_list, update_running, slugs, available_mods,
                   unavailable_mods, manifest_json, overrides, archive_written>>
    /\ OutsideResolve

\* Line 457 and main 784-785: the backup pass returns its two lists.
BackupReturn ==
    /\ pc = "backup"
    /\ r_idx > Len(unavailable_mods)
    /\ available_mods' = available_mods \o backup_available
    /\ unavailable_mods' = still_unavailable
    /\ pc' = "tally"
    /\ UNCHANGED <<mod_list, non_mod_list, forge_list, update_running, report, slugs,
                   backup_available, still_unavailable, attached, r_idx,
                   manifest_json, overrides, archive_written, log, lookups, last_resp, picked>>
    /\ OutsideResolve

\* ------------------------------------------------------- main, 787-805
\* Lines 796-798: nothing resolved and something unresolved ends the run.
Tally ==
    /\ pc = "tally"
    /\ IF available_mods = <<>> /\ unavailable_mods # <<>>
       THEN pc' = "done" /\ report' = "error021"
       ELSE pc' = "assemble" /\ report' = report
    /\ UNCHANGED <<mod_list, non_mod_list, forge_list, update_running, resolveVars>>
    /\ OutsideResolve

\* Lines 619-626: the "files" of the manifest.
ManifestFiles(available) ==
    [i \in 1..Len(available) |-> attached[available[i]]]

\* Lines 801-802: modlist.html and the CurseForge structure; manifest.json
\* lists the id pairs of the available mods.
\* What unpacking the archive of a descriptor puts into the overrides tree.
Unpacked(d) ==
    [file |-> sanitize_filename(d.url), md5 |-> downloads[sanitize_filename(d.url)]]

\* os.path.exists(src_path)
InDownloads(d) == sanitize_filename(d.url) \in DOMAIN downloads

\* Lines 575-580: shutil.copy raises on the first asset whose file is absent;
\* the index of that asset, or 0.
FirstAbsentAsset ==
    FirstFile({i \in 1..Len(non_mod_list) : ~InDownloads(non_mod_list[i])})

\* Lines 583-588 and 543-556: the mods not among the available ones are
\* unpacked; extract_and_copy_file prints the error of one whose file is
\* absent and returns.
BundledMods ==
    {Unpacked(mod_list[i]) :
        i \in {j \in 1..Len(mod_list) :
                  /\ mod_list[j].name \notin Range(available_mods)
                  /\ InDownloads(mod_list[j])}}

\* Lines 801-802: modlist.html and the CurseForge structure: the overrides
\* tree is filled and manifest.json lists the id pairs of the available
\* mods; an exception ends the run as a program fault (806-808).
Assemble ==
    /\ pc = "assemble"
    /\ IF FirstAbsentAsset # 0
       THEN /\ overrides' = overrides \cup
                    {Unpacked(non_mod_list[i]) : i \in 1..(FirstAbsentAsset - 1)}
            /\ pc' = "done"
            /\ report' = "program_fault"
            /\ UNCHANGED manifest_json
       ELSE /\ overrides' = overrides
                    \cup {Unpacked(non_mod_list[i]) : i \in 1..Len(non_mod_list)}
                    \cup BundledMods
            /\ manifest_json' = ManifestFiles(available_mods)
            /\ pc' = "zip"
            /\ UNCHANGED report
    /\ UNCHANGED <<mod_list, non_mod_list, forge_list, update_running, slugs,
                   available_mods, unavailable_mods, backup_available,
                   still_unavailable, attached, r_idx, archive_written, log,
                   lookups, last_resp, picked>>
    /\ OutsideResolve

\* Lines 803-805: zip_curseforge_modpack writes the archive.
Zip ==
    /\ pc = "zip"
    /\ archive_written' = TRUE
    /\ pc' = "done"
    /\ report' = "completed"
    /\ UNCHANGED <<mod_list, non_mod_list, forge_list, update_running, slugs, available_mods,
                   unavailable_mods, backup_available, still_unavailable, attached,
                   r_idx, manifest_json, overrides, log, lookups, last_resp, picked>>
    /\ OutsideResolve

NextResolve ==
    \/ ExtractSlugs
    \/ ExtractSlugsRaises
    \/ PrimaryNoSlug
    \/ PrimaryLookup
    \/ PrimaryReturn
    \/ BackupNoSlug
    \/ BackupLookup
    \/ BackupReturn
    \/ Tally
    \/ Assemble
    \/ Zip

SpecResolve == InitResolve /\ [][NextResolve]_vars

\* ------------------------------------------------- the resolution stage
NotWritten == manifest_json = <<"not written">> /\ ~archive_written

LastLookup == lookups[Len(lookups)]

\* The last lookup was a backup lookup that the endpoint answered with 404.
BackupNotFound ==
    /\ lookups # <<>>
    /\ LastLookup.api = "backup"
    /\ last_resp = "not_found"

\* C5: the ids a mod carries come from a file that lists the target platform
\* version, unless the closest-match fallback chose the file; and every mod
\* whose file the fallback chose has the ERROR 023 caveat printed for it.
C5_PlatformOrCaveat ==
    /\ DOMAIN attached = DOMAIN picked
    /\ \A n \in DOMAIN picked :
        /\ attached[n].fileID = picked[n].fileId
        /\ minecraft_version \notin Range(picked[n].gameVersions)
              => picked[n].tier = "closest"
        /\ picked[n].tier = "closest" => [code |-> "023", mod |-> n] \in log

\* C5: one mod resolved by the primary pass and another by the fallback, from
\* a file that does not list the target version.
C5_Witness ==
    /\ \E n \in DOMAIN picked : picked[n].api = "primary"
    /\ \E n \in DOMAIN picked :
        /\ picked[n].tier = "closest"
        /\ minecraft_version \notin Range(picked[n].gameVersions)

\* C6: once the backup endpoint answers 404 for a mod, the run is over with
\* neither manifest.json nor the archive written, and no further lookup is
\* made.
C6_NotFoundAbortsBatch ==
    /\ [](BackupNotFound =>
            pc = "done" /\ report = "resolution_aborted" /\ NotWritten)
    /\ [][BackupNotFound => lookups' = lookups /\ NotWritten']_vars

\* C6: the 404 came for a mod that is not the last of the backup pass, after
\* an earlier mod of this run had been resolved.
C6_Witness ==
    /\ BackupNotFound
    /\ r_idx < Len(unavailable_mods)
    /\ available_mods # <<>>

\* C8: a run whose resolution was aborted had a 404 from the backup endpoint
\* as its last answer.
C8_OnlyNotFoundAborts ==
    report = "resolution_aborted" => last_resp = "not_found"

\* ------------------------------------------------------------ rate_limited
\* What the calls through the gate leave alone.
OutsideRate == UNCHANGED <<cacheVars, resolveVars, laterVars>>

\* A session of the GUI whose runs have reached the resolution: the gate is
\* the one of the process, whatever run calls it.
InitRate ==
    /\ mod_list = <<>>
    /\ non_mod_list = <<>>
    /\ forge_list = <<>>
    /\ update_running = TRUE
    /\ pc = "primary"
    /\ report = "none"
    /\ CacheIdle
    /\ ResolveIdle
    /\ RateIdle
    /\ LaterIdle

\* Time passes.
Tick ==
    /\ clock < MaxTime
    /\ clock' = clock + 1
    /\ UNCHANGED <<last_called, gate_pc, wake, req_start, prev_end>>
    /\ OutsideRate

\* Lines 308-311: a call enters the gate; it sleeps when less than
\* min_interval has gone by since last_called.
RateLimitedCall ==
    /\ gate_pc = "idle"
    /\ LET elapsed == clock - last_called
           left_to_wait == min_interval - elapsed
       IN  IF left_to_wait > 0
           THEN gate_pc' = "sleep" /\ wake' = clock + left_to_wait
           ELSE gate_pc' = "func" /\ wake' = wake
    /\ UNCHANGED <<clock, last_called, req_start, prev_end>>
    /\ OutsideRate

\* Line 311: time.sleep returns, no sooner than asked.
SleepReturns ==
    /\ gate_pc = "sleep"
    /\ clock >= wake
    /\ gate_pc' = "func"
    /\ UNCHANGED <<clock, last_called, wake, req_start, prev_end>>
    /\ OutsideRate

\* Lines 312 and 325: func is called and sends its request.
RequestStarts ==
    /\ gate_pc = "func"
    /\ req_start' = clock
    /\ gate_pc' = "request"
    /\ UNCHANGED <<clock, last_called, wake, prev_end>>
    /\ OutsideRate

\* Lines 325-346: the request completes; fetch_mod_details returns, or the
\* transposition of the backup body raises.
RequestCompletes ==
    /\ gate_pc = "request"
    /\ \E use_backup \in BOOLEAN, resp \in Responses :
        /\ last_resp' = resp.kind
        /\ gate_pc' = IF fetch_mod_details("jei", use_backup, resp).result = "raise"
                      THEN "raised" ELSE "returned"
    /\ prev_end' = clock
    /\ UNCHANGED <<clock, last_called, wake, req_start>>
    /\ UNCHANGED <<cacheVars, slugs, available_mods, unavailable_mods,
                   backup_available, still_unavailable, attached, r_idx,
                   manifest_json, overrides, archive_written, log, lookups, picked>>
    /\ UNCHANGED laterVars

\* Lines 313-314: func has returned, last_called is set.
GateReturns ==
    /\ gate_pc = "returned"
    /\ last_called' = clock
    /\ gate_pc' = "idle"
    /\ UNCHANGED <<clock, wake, req_start, prev_end>>
    /\ OutsideRate

\* Line 312 raises: line 313 is not reached; the exception ends the run in
\* main's handler (809-811), which reports a program fault.
GateRaises ==
    /\ gate_pc = "raised"
    /\ gate_pc' = "fault"
    /\ report' = "program_fault"
    /\ pc' = "done"
    /\ UNCHANGED <<clock, last_called, wake, req_start, prev_end>>
    /\ UNCHANGED <<build_mods, mod_list, non_mod_list, forge_list, downloads, existing_mods,
                   mods_to_download, mods_to_remove, dl_idx, downloaded_files,
                   update_running, pre_compare, last_compare, prev_compare,
                   dl_log, cancel_at, resolveVars>>
    /\ UNCHANGED laterVars

\* gui.py 61-89 after 56-59: Start is pressed again, and the new run comes to
\* its resolution.
StartUpdate ==
    /\ gate_pc = "fault"
    /\ gate_pc' = "idle"
    /\ report' = "none"
    /\ pc' = "primary"
    /\ last_resp' = "none"
    /\ UNCHANGED <<clock, last_called, wake, req_start, prev_end>>
    /\ UNCHANGED <<build_mods, mod_list, non_mod_list, forge_list, downloads, existing_mods,
                   mods_to_download, mods_to_remove, dl_idx, downloaded_files,
                   update_running, pre_compare, last_compare, prev_compare,
                   dl_log, cancel_at>>
    /\ UNCHANGED <<slugs, available_mods, unavailable_mods, backup_available,
                   still_unavailable, attached, r_idx, manifest_json, overrides,
                   archive_written, log, lookups, picked>>
    /\ UNCHANGED laterVars

NextRate ==
    \/ Tick
    \/ RateLimitedCall
    \/ SleepReturns
    \/ RequestStarts
    \/ RequestCompletes
    \/ GateReturns
    \/ GateRaises
    \/ StartUpdate

SpecRate == InitRate /\ [][NextRate]_vars

\* C9: a request under way was started at least min_interval after the
\* request before it completed.
C9_MinimumSpacing ==
    gate_pc = "request" /\ prev_end >= 0 => req_start - prev_end >= min_interval

\* ------------------------------------ the two match procedures, one mod
\* The mods looked up: those of the pool that have a slug, and the one
\* without a link given the link of another.
MatchMods ==
    {m \in ResolvePool : SlugOf(m) \notin {NoSlug, IndexError}}
        \cup {[ModOwn EXCEPT !.link = ModJei.link]}

\* One mod with a slug, and what each endpoint answers for it.
InitMatch ==
    /\ m_mod \in MatchMods
    /\ m_presp \in Responses
    /\ m_bresp \in Responses
    /\ m_primary = NoOutcome
    /\ m_backup = NoOutcome
    /\ m_pc = "primary"
    /\ mod_list = <<>>
    /\ non_mod_list = <<>>
    /\ forge_list = <<>>
    /\ update_running = TRUE
    /\ pc = "primary"
    /\ report = "none"
    /\ CacheIdle
    /\ ResolveIdle
    /\ RateIdle
    /\ BuildIdle
    /\ ExtraIdle

OutsideMatch == UNCHANGED <<cacheVars, resolveVars, rateVars, buildVars, extraVars>>

\* check_mod_availability, lines 469-523, for the mod; a mod it leaves
\* unavailable goes to the backup pass (main 779-781).
MatchPrimary ==
    /\ m_pc = "primary"
    /\ m_primary' = check_one(m_mod, SlugOf(m_mod), m_presp, minecraft_version)
    /\ m_pc' = IF m_primary'.outcome = "unavailable" THEN "backup" ELSE "done"
    /\ UNCHANGED <<m_mod, m_presp, m_bresp, m_backup>>
    /\ OutsideMatch

\* backup_check_mod_availability, lines 401-455, for the mod.
MatchBackup ==
    /\ m_pc = "backup"
    /\ m_backup' = backup_check_one(m_mod, SlugOf(m_mod), m_bresp, minecraft_version)
    /\ m_pc' = "done"
    /\ UNCHANGED <<m_mod, m_presp, m_bresp, m_primary>>
    /\ OutsideMatch

NextMatch ==
    \/ MatchPrimary
    \/ MatchBackup

SpecMatch == InitMatch /\ [][NextMatch]_vars

\* The file lists the target platform version.
ListsPlatform(e) == e.gameVersion = minecraft_version

\* The file's name holds the mod's version string.
NameHasVersion(e, mod) == Contains(LowerStr(Strip(e.name)), ModVersion(mod))

\* The backup pass has dealt with the mod.
BackupDone == m_pc = "done" /\ m_backup # NoOutcome

\* The least element of a set of indices.
Least(S) == CHOOSE i \in S : \A j \in S : i <= j

\* C11: the primary endpoint answered 404, the backup endpoint a file list in
\* which some file lists the target version and no name holds the mod's
\* version.
C11_Case ==
    /\ BackupDone
    /\ m_presp.kind = "not_found"
    /\ m_bresp.kind = "ok"
    /\ \E i \in 1..Len(m_bresp.files) : ListsPlatform(m_bresp.files[i])
    /\ \A i \in 1..Len(m_bresp.files) : ~NameHasVersion(m_bresp.files[i], m_mod)

\* C11: in that case the mod is resolved with the first file that lists the
\* target version, ERROR 023 is printed, and the pass goes on.
C11_ClosestByPlatform ==
    C11_Case =>
        /\ m_backup.outcome = "resolved"
        /\ m_backup.file.fileId =
              m_bresp.files[Least({i \in 1..Len(m_bresp.files) :
                                      ListsPlatform(m_bresp.files[i])})].fileId
        /\ m_backup.tier = "closest"
        /\ "023" \in m_backup.said

\* C11: the case, with a file of another platform version listed first.
C11_Witness ==
    /\ C11_Case
    /\ Len(m_bresp.files) > 1
    /\ ~ListsPlatform(m_bresp.files[1])

\* ------------------------------------------------------ the orphan set
\* The files the last compare_mods deleted.
DeletedByCompare == (DOMAIN pre_compare) \ (DOMAIN downloads)

\* The names of the descriptors of the download set.
DownloadNames ==
    {sanitize_filename(mods_to_download[i].url) : i \in 1..Len(mods_to_download)}

\* C12: mods_to_remove is exactly the cached names no descriptor has; every
\* file compare_mods deleted is in it or is the file of a descriptor of the
\* download set; and a deleted file had failed the validation of the garbage
\* pass.
C12_OrphansSurfaced ==
    Compared =>
        /\ mods_to_remove = (DOMAIN pre_compare) \ ExpectedNames
        /\ \A f \in DeletedByCompare :
            /\ f \in mods_to_remove \/ f \in DownloadNames
            /\ ~IsValid(pre_compare, AllMods, f)

\* C12: compare_mods deleted a file no descriptor names and a file a
\* descriptor names.
C12_Witness ==
    /\ Compared
    /\ \E f \in DeletedByCompare : f \in mods_to_remove
    /\ \E f \in DeletedByCompare : f \in DownloadNames

\* --------------------------------------------- the package, main 787-805
\* The names of the mods of a list that are in S, in the order of the list.
NamesIn(mods, S) ==
    LET names == [i \in 1..Len(mods) |-> mods[i].name] IN
    SelectSeq(names, LAMBDA n : n \in S)

\* The mod lists whose slugs extract_slugs_from_mod_list can take.
PackLists == {m \in ModLists : \A i \in 1..Len(m) : SlugOf(m[i]) # IndexError}

\* main at line 787.  The cache stage has left the verified files of some of
\* the descriptors, one of a mod at least (line 764).  The primary pass has
\* resolved the mods of P; if it left any mod unavailable, the backup pass
\* has resolved the other mods that have a slug and has left those without
\* one (a mod with a slug that it does not resolve ends the run).  The
\* observations of the lookups are not kept.
InitPackage ==
    /\ mod_list \in PackLists
    /\ non_mod_list \in {<<>>, <<AssetD>>}
    /\ forge_list = <<>>
    /\ update_running = TRUE
    /\ pc = "tally"
    /\ report = "none"
    /\ \E S \in SUBSET NamesOf(mod_list \o non_mod_list) :
        /\ S \cap NamesOf(mod_list) # {}
        /\ CacheLeft(CachedFiles(mod_list \o non_mod_list, S))
    /\ slugs = extract_slugs_from_mod_list(mod_list)
    /\ \E P \in SUBSET (DOMAIN slugs), ids \in [DOMAIN slugs -> {e.fileId : e \in Catalog}] :
        LET left == NamesIn(mod_list, NamesOf(mod_list) \ P) IN
        /\ backup_available = NamesIn(mod_list, (DOMAIN slugs) \ P)
        /\ available_mods = NamesIn(mod_list, P) \o backup_available
        /\ still_unavailable = NamesIn(mod_list, NamesOf(mod_list) \ DOMAIN slugs)
        /\ unavailable_mods = still_unavailable
        /\ r_idx = IF left = <<>> THEN 1 ELSE Len(left) + 1
        /\ attached = [n \in DOMAIN slugs |->
                          [projectID |-> ProjectId(slugs[n]), fileID |-> ids[n]]]
    /\ manifest_json = <<"not written">>
    /\ overrides = {}
    /\ archive_written = FALSE
    /\ log = {}
    /\ lookups = <<>>
    /\ last_resp = "none"
    /\ picked = <<>>
    /\ RateIdle
    /\ LaterIdle

NextPackage ==
    \/ Tally
    \/ Assemble
    \/ Zip

SpecPackage == InitPackage /\ [][NextPackage]_vars

\* The id pair of the mod is in the "files" of manifest.json.
Referenced(mod) ==
    /\ mod.name \in DOMAIN attached
    /\ attached[mod.name] \in Range(manifest_json)

\* The archive of the descriptor was unpacked into the overrides tree.
Bundled(d) == [file |-> sanitize_filename(d.url), md5 |-> d.md5] \in overrides

\* C13: in a package that was written, every mod is either referenced in the
\* manifest (a resolved mod) or bundled in the overrides tree, never both and
\* never neither, and every non-mod asset is bundled.
C13_EveryModInOnePlace ==
    archive_written =>
        /\ \A i \in 1..Len(mod_list) :
            /\ Referenced(mod_list[i]) # Bundled(mod_list[i])
            /\ Referenced(mod_list[i]) <=> mod_list[i].name \in Range(available_mods)
        /\ \A i \in 1..Len(non_mod_list) : Bundled(non_mod_list[i])

\* ------------------------------------------------- the batch of downloads
\* The outcomes that are the failure of one item: a digest mismatch, a
\* RequestException before or in the middle of the stream.
ItemFailures == {"corrupt", "http_error", "stream_error"}

\* The items of the batch that were downloaded and verified, in order.
VerifiedItems ==
    SelectSeq([k \in 1..Len(dl_log) |-> k], LAMBDA k : dl_log[k] = "ok")

\* download_mods is running or has ended.
BatchStarted == pc = "download_items" \/ (pc \in {"extract", "done"} /\ dl_log # <<>>)

\* C14: after the failure of an item that is not the last, the next item has
\* been processed or the loop is at it; and the list of download_mods holds
\* exactly the files of the items downloaded and verified, in order.
C14_FailuresIsolated ==
    BatchStarted =>
        /\ \A k \in 1..Len(dl_log) :
            dl_log[k] \in ItemFailures /\ k < Len(mods_to_download) =>
                \/ Len(dl_log) > k
                \/ pc = "download_items" /\ dl_idx = k + 1
        /\ downloaded_files =
              [j \in 1..Len(VerifiedItems) |->
                  sanitize_filename(mods_to_download[VerifiedItems[j]].url)]

\* C14: download_mods has returned its list after a batch in which an item
\* was verified after a digest mismatch and a transport error of earlier ones.
C14_Witness ==
    /\ Returned
    /\ \E i, j, k \in 1..Len(dl_log) :
        /\ i < k /\ j < k
        /\ dl_log[i] = "corrupt"
        /\ dl_log[j] \in {"http_error", "stream_error"}
        /\ dl_log[k] = "ok"

\* --------------------------------------------- the Solder API, main 682-728
\* BUILD_VERSION as the configuration may give it.
ConfigVersions == {"1.0", "latest", "Latest"}

\* What the modpack endpoint may answer: 200 with a body whose "recommended"
\* is absent, empty, a build or the word itself; another status; no answer.
AbsentKey == "<absent>"
Recommended == {AbsentKey, "", "1.0", "latest", "Latest"}
InfoResponses ==
    {[status |-> "ok", recommended |-> r] : r \in Recommended}
        \cup {[status |-> "error", recommended |-> AbsentKey],
              [status |-> "exception", recommended |-> AbsentKey]}

\* A loader entry as Solder lists it, and one under the same path with
\* another name.
ForgeE == [name |-> "Forge", url |-> <<"h", "/", "Forges", "/", "forge.zip">>,
           md5 |-> 2, version |-> <<"10", "-", "13", "-", "4">>]
ForgeLoader == [name |-> "Loader", url |-> <<"h", "/", "forges", "/", "loader.zip">>,
                md5 |-> 2, version |-> <<"10", "-", "13">>]

BuildPool == {ModA, AssetD, ForgeE, ForgeLoader}

\* The "mods" arrays a build may have.
BuildManifests ==
    {m \in UNION {[1..n -> BuildPool] : n \in 0..MaxMods} :
        \A i, j \in 1..Len(m) : i # j => m[i] # m[j]}

\* What the build endpoint may answer: the build, 200 with the error "Build
\* does not exist", another status, no answer.
BuildResponses ==
    {[kind |-> "ok", mods |-> m] : m \in BuildManifests}
        \cup {[kind |-> k, mods |-> <<>>] : k \in {"not_exist", "error", "exception"}}

\* modpack_info.get("recommended", "")
RecommendedOf(info) ==
    IF info.recommended = AbsentKey THEN "" ELSE info.recommended

\* The request for a build.
BuildRequest(version) == [to |-> "build", version |-> version]
InfoRequest == [to |-> "modpack", version |-> ""]

\* Lines 55-60: the version of the first entry named forge, or None.
ForgeVersion(mods) ==
    LET named == {i \in 1..Len(mods) : LowerTok(mods[i].name) = "forge"} IN
    IF named = {} THEN <<"None">> ELSE mods[FirstFile(named)].version

\* A fetch_build_details that asks for the build "latest" itself when the
\* modpack has no recommended build.
fetch_build_details_asksLatest(build_version, info, build) ==
    LET latest == LowerTok(build_version) = "latest"
        version == IF latest /\ info.status = "ok" /\ RecommendedOf(info) # ""
                   THEN RecommendedOf(info) ELSE build_version
        first == IF latest THEN <<InfoRequest>> ELSE <<>>
    IN  CASE build.kind = "ok" ->
                [result |-> "data", mods |-> build.mods,
                 forge_version |-> ForgeVersion(build.mods),
                 requests |-> Append(first, BuildRequest(version)), said |-> ""]
          [] OTHER ->
                [result |-> "None", mods |-> <<>>, forge_version |-> <<>>,
                 requests |-> Append(first, BuildRequest(version)),
                 said |-> CASE build.kind = "not_exist" -> "012 does not exist"
                            [] build.kind = "error" -> "012 unable"
                            [] OTHER -> "012 exception"]

\* fetch_build_details, lines 32-67, given what the two endpoints answer: what
\* it returns (None, or the build with its forge_version), the requests it
\* sends and the message it prints.
fetch_build_details(build_version, info, build) ==
    LET latest == LowerTok(build_version) = "latest"
        version == IF latest THEN RecommendedOf(info) ELSE build_version
        first == IF latest THEN <<InfoRequest>> ELSE <<>>
    IN  CASE latest /\ info.status # "ok" ->
                [result |-> "None", mods |-> <<>>, forge_version |-> <<>>,
                 requests |-> first,
                 said |-> IF info.status = "error" THEN "011" ELSE "012 exception"]
          [] latest /\ version = "" ->
                [result |-> "None", mods |-> <<>>, forge_version |-> <<>>,
                 requests |-> first, said |-> "012 no recommended"]
          [] build.kind = "ok" ->
                [result |-> "data", mods |-> build.mods,
                 forge_version |-> ForgeVersion(build.mods),
                 requests |-> Append(first, BuildRequest(version)), said |-> ""]
          [] OTHER ->
                [result |-> "None", mods |-> <<>>, forge_version |-> <<>>,
                 requests |-> Append(first, BuildRequest(version)),
                 said |-> CASE build.kind = "not_exist" -> "012 does not exist"
                            [] build.kind = "error" -> "012 unable"
                            [] OTHER -> "012 exception"]

InitBuild ==
    /\ BUILD_VERSION \in ConfigVersions
    /\ requests = <<>>
    /\ fbd = NoCall
    /\ mod_list = <<>>
    /\ non_mod_list = <<>>
    /\ forge_list = <<>>
    /\ update_running = TRUE
    /\ pc = "resolve_latest"
    /\ report = "none"
    /\ CacheIdle
    /\ ResolveIdle
    /\ RateIdle
    /\ MatchIdle
    /\ ExtraIdle

\* What the start of main leaves alone.
BuildFrame ==
    UNCHANGED <<mod_list, non_mod_list, forge_list, downloads, existing_mods,
                mods_to_download, mods_to_remove, dl_idx, downloaded_files,
                update_running, pre_compare, last_compare, prev_compare, dl_log,
                cancel_at, resolveVars, rateVars, matchVars, extraVars>>

\* main, lines 682-690: "latest" is replaced by the recommended build.  An
\* exception of fetch_modpack_info goes to main's handler (812-814).
ResolveLatest ==
    /\ pc = "resolve_latest"
    /\ IF LowerTok(BUILD_VERSION) = "latest"
       THEN \E info \in InfoResponses :
            /\ requests' = Append(requests, InfoRequest)
            /\ CASE info.status = "exception" ->
                        pc' = "done" /\ report' = "program_fault"
                            /\ UNCHANGED BUILD_VERSION
                 [] info.status = "error" ->
                        pc' = "done" /\ report' = "error011"
                            /\ UNCHANGED BUILD_VERSION
                 [] info.status = "ok" /\ RecommendedOf(info) = "" ->
                        pc' = "done" /\ report' = "error012"
                            /\ BUILD_VERSION' = ""
                 [] OTHER ->
                        pc' = "fetch_modpack_info" /\ report' = report
                            /\ BUILD_VERSION' = RecommendedOf(info)
       ELSE /\ pc' = "fetch_modpack_info"
            /\ UNCHANGED <<BUILD_VERSION, requests, report>>
    /\ UNCHANGED <<build_mods, fbd>>
    /\ BuildFrame

\* main, lines 715-718.
FetchModpackInfo ==
    /\ pc = "fetch_modpack_info"
    /\ \E info \in InfoResponses :
        /\ requests' = Append(requests, InfoRequest)
        /\ CASE info.status = "exception" -> pc' = "done" /\ report' = "program_fault"
             [] info.status = "error" -> pc' = "done" /\ report' = "error011"
             [] OTHER -> pc' = "fetch_build_details" /\ report' = report
    /\ UNCHANGED <<build_mods, BUILD_VERSION, fbd>>
    /\ BuildFrame

\* main, lines 720-723, and fetch_build_details.
FetchBuildDetails ==
    /\ pc = "fetch_build_details"
    /\ \E info \in InfoResponses, build \in BuildResponses :
        LET r == fetch_build_details(BUILD_VERSION, info, build) IN
        /\ fbd' = [called |-> TRUE, build_version |-> BUILD_VERSION,
                   info |-> info, api |-> build.kind,
                   requests |-> r.requests, result |-> r.result, said |-> r.said]
        /\ requests' = requests \o r.requests
        /\ IF r.result = "None"
           THEN pc' = "done" /\ report' = "error012" /\ UNCHANGED build_mods
           ELSE pc' = "fetch_mod_list" /\ report' = report /\ build_mods' = r.mods
    /\ UNCHANGED BUILD_VERSION
    /\ BuildFrame

NextBuild ==
    \/ ResolveLatest
    \/ FetchModpackInfo
    \/ FetchBuildDetails
    \/ FetchModList

SpecBuild == InitBuild /\ [][NextBuild]_vars

\* fetch_build_details has returned to main.
Called == fbd.called

\* The answers of the build endpoint that are a failure of the transport.
TransportFailures == {"error", "exception"}

\* C15: when the build endpoint says that the build does not exist, the
\* result of fetch_build_details is not one that it gives, for the same
\* argument, when the request fails with another status or an exception.
C15_NotFoundDistinct ==
    Called /\ fbd.api = "not_exist" /\ BuildRequest(fbd.build_version) \in Range(fbd.requests) =>
        \A k \in TransportFailures :
            fetch_build_details(fbd.build_version, fbd.info,
                                [kind |-> k, mods |-> <<>>]).result # fbd.result

\* fetch_mod_list has returned to main.
Listed == pc = "fetch_existing_mods" \/ report = "error013"

\* The entry's URL has a path segment "forges" ("others"), in any case.
UnderForges(mod) == "forges" \in Range(Lower(mod.url))
UnderOthers(mod) == "others" \in Range(Lower(mod.url))

\* The lists of the three categories that hold the raw entry.
PlacedIn(e) ==
    {c \in {"forge", "other", "mod"} :
        CASE c = "forge" ->
                [name |-> e.name, url |-> e.url, md5 |-> e.md5,
                 version |-> Dotted(VersionOf(e))] \in Range(forge_list)
          [] c = "other" -> e \in Range(non_mod_list)
          [] OTHER -> e \in Range(mod_list)}

\* C16: every raw entry of the build is in exactly one of the three lists:
\* the loader descriptors, with its version dotted, when its URL is under a
\* "forges" path; the non-mod assets when it is under an "others" path; the
\* regular mods otherwise.
C16_ThreeCategories ==
    Listed =>
        \A i \in 1..Len(build_mods) :
            LET e == build_mods[i] IN
            PlacedIn(e) = {IF UnderForges(e) THEN "forge"
                           ELSE IF UnderOthers(e) THEN "other" ELSE "mod"}

\* The same, for the builds whose entries under a "forges" path are all
\* named "forge".
C16_WhenLoaderNamedForge ==
    (\A i \in 1..Len(build_mods) :
        UnderForges(build_mods[i]) => LowerTok(build_mods[i].name) = "forge")
    => C16_ThreeCategories

\* The modpack endpoint answered and named a recommended build.
Recommends(info) ==
    info.status = "ok" /\ info.recommended \notin {AbsentKey, ""}

\* C17: called with the word "latest" in any letter case, fetch_build_details
\* first asks for the modpack info; it then asks for the build that
\* "recommended" names and for nothing else, and when the info could not be
\* fetched or "recommended" is absent or empty it returns None and asks for
\* no build.
C17_LatestIsRecommended ==
    Called /\ LowerTok(fbd.build_version) = "latest" =>
        IF Recommends(fbd.info)
        THEN fbd.requests = <<InfoRequest, BuildRequest(fbd.info.recommended)>>
        ELSE fbd.requests = <<InfoRequest>> /\ fbd.result = "None"

\* C17: fetch_build_details("Latest") has returned the build "1.0" that the
\* modpack recommends, after asking for the modpack and then for that build.
C17_Witness ==
    /\ Called
    /\ fbd.build_version = "Latest"
    /\ fbd.info = [status |-> "ok", recommended |-> "1.0"]
    /\ fbd.requests = <<InfoRequest, BuildRequest("1.0")>>
    /\ fbd.result = "data"

\* ------------------------------------------- the selection and its tiers
\* The primary pass has dealt with the mod.
PrimaryDone == m_primary # NoOutcome

\* The id of the file a pass resolved the mod with, 0 when it did not.
Selected(r) == IF r.outcome = "resolved" THEN FileIdOf(r.file) ELSE 0

\* The earliest-listed file of each tier, in the order of the tiers: platform
\* and version, version alone, platform alone; 0 for no file.
TierSelect(files, mod) ==
    LET both == {i \in 1..Len(files) :
                    ListsPlatform(files[i]) /\ NameHasVersion(files[i], mod)}
        by_version == {i \in 1..Len(files) : NameHasVersion(files[i], mod)}
        by_platform == {i \in 1..Len(files) : ListsPlatform(files[i])}
    IN  IF both # {} THEN files[Least(both)].fileId
        ELSE IF by_version # {} THEN files[Least(by_version)].fileId
        ELSE IF by_platform # {} THEN files[Least(by_platform)].fileId
        ELSE 0

\* C18: for every file list an endpoint returns for the slug, the file the
\* pass resolves the mod with is the earliest-listed file of the first tier
\* that has one (platform and version, then version, then platform), and
\* the mod is not resolved when no tier has a file.
C18_SelectionIsTiered ==
    /\ PrimaryDone /\ m_presp.kind = "ok" =>
            Selected(m_primary) = TierSelect(m_presp.files, m_mod)
    /\ BackupDone /\ m_bresp.kind = "ok" =>
            Selected(m_backup) = TierSelect(m_bresp.files, m_mod)

\* The same, for the backup pass alone.
C18_BackupIsTiered ==
    BackupDone /\ m_bresp.kind = "ok" =>
        Selected(m_backup) = TierSelect(m_bresp.files, m_mod)

\* What backup_check_mod_availability makes of the file list the primary
\* endpoint returned, transposed into the shape it matches on.
BackupOnPrimaryList == backup_check_one(m_mod, SlugOf(m_mod), m_presp, minecraft_version)

\* C19: given the same mod, the same target version and the same file list,
\* check_mod_availability and backup_check_mod_availability resolve the mod
\* with the same file, or both do not resolve it.
C19_SameOutcome ==
    PrimaryDone /\ m_presp.kind = "ok" =>
        /\ (m_primary.outcome = "resolved") = (BackupOnPrimaryList.outcome = "resolved")
        /\ Selected(m_primary) = Selected(BackupOnPrimaryList)

\* The same, for the file lists in which a file lists the target version
\* and holds the mod's version in its name.
C19_SameOnFirstTier ==
    (\E i \in 1..Len(m_presp.files) :
        ListsPlatform(m_presp.files[i]) /\ NameHasVersion(m_presp.files[i], m_mod))
    => C19_SameOutcome

\* The file's name, lower-cased and with the separators cut out, holds the
\* mod's version with its separators cut out.
NormalisedNameHasVersion(file, mod) ==
    Contains(Clean(FileNameOf(file)), Clean(ModVersion(mod)))

\* C20: check_mod_availability resolves a mod only with a file that lists
\* the target platform version and whose normalised name holds the mod's
\* declared version, whatever the version string is.
C20_PrimaryMatchIsExact ==
    PrimaryDone /\ m_primary.outcome = "resolved" =>
        /\ minecraft_version \in Range(GameVersionsOf(m_primary.file))
        /\ NormalisedNameHasVersion(m_primary.file, m_mod)

\* The same, for the mods whose version does not hold the target platform
\* version.
C20_ExactWhenVersionApart ==
    ~Contains(ModVersion(m_mod), minecraft_version) => C20_PrimaryMatchIsExact

\* --------------------------------------------------- mods without a slug
\* The link has the shape of a project page of the index: the index's host,
\* then /minecraft/mc-mods/<slug> or /projects/<slug>.
HasIndexShape(mod) ==
    /\ mod.link # <<>>
    /\ MentionsCurseForge(mod.link)
    /\ LET parts == Split(UrlPath(mod.link), "/") IN
        \/ Len(parts) >= 4 /\ parts[2] = "minecraft" /\ parts[3] = "mc-mods" /\ parts[4] # ""
        \/ Len(parts) >= 3 /\ parts[2] = "projects" /\ parts[3] # ""

\* The run ended with a program fault before any lookup.
FaultBeforeLookups == pc = "done" /\ report = "program_fault" /\ lookups = <<>>

\* The resolution has returned its two lists to main.
ResolutionOver == pc \in {"tally", "assemble", "zip"} \/ report \in {"completed", "error021"}

\* C21: a mod without a link, or whose link is not of the index's shape, has
\* no slug, is looked up at neither endpoint, is among the unavailable mods
\* when the resolution is over, and the run does not end with a fault at the
\* extraction of the slugs.
C21_NoSlugNoLookup ==
    \A i \in 1..Len(mod_list) :
        ~HasIndexShape(mod_list[i]) =>
            /\ mod_list[i].name \notin DOMAIN slugs
            /\ \A k \in 1..Len(lookups) : lookups[k].mod # mod_list[i].name
            /\ ResolutionOver => mod_list[i].name \in Range(unavailable_mods)
            /\ ~FaultBeforeLookups

\* The same, for the builds in which every link on the index's host names a
\* project.
C21_WhenLinksNameProject ==
    (\A i \in 1..Len(mod_list) : SlugOf(mod_list[i]) # IndexError) => C21_NoSlugNoLookup

\* ------------------------------------------- from resolution to package
\* The run is over and the resolution had returned its two lists: neither
\* the fatal return of the backup pass nor an exception ended it.
EndedAfterResolution ==
    pc = "done" /\ report \notin {"resolution_aborted", "program_fault"}

\* C22: a run that ends after a resolution that returned its lists has
\* written the archive, with every unavailable mod unpacked into the
\* overrides tree; so does the run in which no mod was resolved.
C22_PackageFollowsResolution ==
    EndedAfterResolution =>
        /\ archive_written
        /\ \A i \in 1..Len(mod_list) :
            mod_list[i].name \in Range(unavailable_mods) => Bundled(mod_list[i])

\* The same, for the runs in which some mod was resolved.
C22_WhenSomeResolved ==
    available_mods # <<>> => C22_PackageFollowsResolution

\* ------------------------------------------------ one item of the batch
\* The loop of download_mods is at an item whose file is in the directory
\* with the digest the item declares.
AtCachedItem ==
    /\ AtItem
    /\ ItemFile \in DOMAIN downloads
    /\ downloads[ItemFile] = Item.md5

\* The loop of download_mods goes on to the next item.
ItemProcessed == AtItem /\ dl_idx' = dl_idx + 1

\* C27: for an item whose file is in the directory with the declared digest,
\* download_mods sends no request (the item is logged as skipped) and leaves
\* the directory as it is.
C27_CachedItemSkipped ==
    [][AtCachedItem /\ ItemProcessed =>
          /\ downloads' = downloads
          /\ dl_log' = Append(dl_log, "skip")
          /\ downloaded_files' = downloaded_files]_vars

\* C27: an item of the batch was skipped after an earlier item of the same
\* batch was downloaded and verified.
C27_Witness ==
    /\ dl_log # <<>>
    /\ dl_log[Len(dl_log)] = "skip"
    /\ \E k \in 1..(Len(dl_log) - 1) : dl_log[k] = "ok"

\* C30: when download_mods has processed an item, whatever the outcome, no
\* file of the item's name with a digest other than the declared one is in
\* the directory.
C30_NoWrongFileLeft ==
    [][ItemProcessed =>
          \/ ItemFile \notin DOMAIN downloads'
          \/ downloads'[ItemFile] = Item.md5]_vars

\* The same, for the items that are skipped or whose response is streamed to
\* its end.
C30_WhenStreamEnds ==
    [][ItemProcessed /\ dl_log'[Len(dl_log')] \in {"skip", "ok", "corrupt"} =>
          \/ ItemFile \notin DOMAIN downloads'
          \/ downloads'[ItemFile] = Item.md5]_vars

\* ------------------------------------------- what the backup pass returns
\* backup_check_mod_availability was called and returned its two lists.
BackupReturnedLists ==
    /\ ResolutionOver
    /\ still_unavailable # <<>> \/ backup_available # <<>>

\* The names of the mods for which no slug was extracted.
Slugless == {mod_list[i].name : i \in {j \in 1..Len(mod_list) : mod_list[j].name \notin DOMAIN slugs}}

\* C29: when backup_check_mod_availability has returned its lists, every mod
\* with a slug is among the available mods, and the still-unavailable list,
\* which main takes as the unavailable mods, is exactly the mods without a
\* slug.
C29_OnlySluglessLeft ==
    BackupReturnedLists =>
        /\ \A n \in DOMAIN slugs : n \in Range(available_mods)
        /\ Range(still_unavailable) = Slugless
        /\ Len(still_unavailable) = Cardinality(Slugless)
        /\ unavailable_mods = still_unavailable

\* C29: the backup pass returned after resolving a mod the primary pass had
\* left, with a mod without a slug in its second list, in a build of which
\* the primary pass had resolved a mod.
C29_Witness ==
    /\ BackupReturnedLists
    /\ backup_available # <<>>
    /\ still_unavailable # <<>>
    /\ Len(available_mods) > Len(backup_available)

\* ------------------------------------------------ completed work is kept
\* The run ended by cancellation or by the failure of a step of the stage.
EndedEarly == pc = "done" /\ report \in {"cancelled", "error016"}

\* The files that were in the directory when compare_mods was called and
\* that some descriptor of the build names with the digest they had.
VerifiedBefore == {f \in DOMAIN pre_compare : IsValid(pre_compare, AllMods, f)}

\* C28: a run that ends by cancellation or by the failure of a step has
\* deleted none of the verified files that were in the download cache.
C28_VerifiedFilesKept ==
    EndedEarly => \A f \in VerifiedBefore : f \in DOMAIN downloads

\* The same, for the builds in which no two descriptors have a file of the
\* same name.
C28_WhenNamesDiffer ==
    (\A i, j \in 1..Len(AllMods) :
        i # j => sanitize_filename(AllMods[i].url) # sanitize_filename(AllMods[j].url))
    => C28_VerifiedFilesKept

\* ======================================================================
\* A whole run of main() under the GUI's Stop (specification SpecRun)
\* ======================================================================
\* The builds run as a whole: mods with a link and a version.
\* The last build lists one archive under two names.
RunManifests ==
    {<<ModJei>>, <<ModOwn>>, <<ModJei, ModOwn>>,
     <<ModJei, [ModOwn EXCEPT !.url = ModJei.url, !.md5 = ModJei.md5]>>}

\* What the build directory may hold besides Downloads when a run starts:
\* the trees and the archive of an earlier run, a file of the user's.
StaleEntries == {"minecraft", "curseforge", "pack.zip", "notes.txt"}

\* os.makedirs of lines 708-711: the directories a run creates.
FreshEntries == {"minecraft", "curseforge"}

\* main has been called for a build (715-723 are modelled in SpecBuild); the
\* Downloads directory holds verified files of some of its mods.
InitRun ==
    /\ build_mods \in RunManifests
    /\ \E S \in SUBSET NamesOf(build_mods) : downloads = CachedFiles(build_mods, S)
    /\ build_dir \in SUBSET StaleEntries
    /\ stop_at = NoStop
    /\ update_running = TRUE
    /\ mod_list = <<>>
    /\ non_mod_list = <<>>
    /\ forge_list = <<>>
    /\ existing_mods = <<>>
    /\ mods_to_download = <<>>
    /\ mods_to_remove = {}
    /\ dl_idx = 0
    /\ downloaded_files = <<>>
    /\ pc = "check_start"
    /\ report = "none"
    /\ pre_compare = <<>>
    /\ last_compare = NoCompare
    /\ prev_compare = NoCompare
    /\ dl_log = <<>>
    /\ cancel_at = -1
    /\ ResolveIdle
    /\ RateIdle
    /\ MatchIdle
    /\ BuildIdle
    /\ GuiIdle
    /\ TaskIdle

\* What the steps of main outside the two stages leave alone.
RunFrame ==
    UNCHANGED <<build_mods, mod_list, non_mod_list, forge_list, downloads,
                existing_mods, mods_to_download, mods_to_remove, dl_idx,
                downloaded_files, pre_compare, last_compare, prev_compare,
                dl_log, resolveVars, rateVars, matchVars, buildVars, guiVars,
                taskVars>>

\* main, lines 670-673: the first look at the event.
StartCheck ==
    /\ pc = "check_start"
    /\ IF Cancelled
       THEN pc' = "done" /\ report' = "cancelled"
       ELSE pc' = "cleanup" /\ report' = report
    /\ UNCHANGED <<update_running, cancel_at, build_dir, stop_at>>
    /\ RunFrame

\* main, lines 699-711: every entry of the build directory but Downloads is
\* removed, and the directories of the run are made.
Cleanup ==
    /\ pc = "cleanup"
    /\ build_dir' = FreshEntries
    /\ pc' = "fetch_mod_list"
    /\ UNCHANGED <<update_running, cancel_at, report, stop_at>>
    /\ RunFrame

\* main, lines 752-769: the archives of the Downloads directory are unpacked
\* into the minecraft tree; without a file of a mod the run ends.
Extract ==
    /\ pc = "extract"
    /\ IF \E i \in 1..Len(mod_list) : InDownloads(mod_list[i])
       THEN pc' = "extract_slugs" /\ report' = report
       ELSE pc' = "done" /\ report' = "error017"
    /\ UNCHANGED <<update_running, cancel_at, build_dir, stop_at>>
    /\ RunFrame

\* The units of work done so far: items of the download batch, lookups.
UnitsDone == Len(dl_log) + Len(lookups)

\* gui.stop_update, confirmed, at any point of the run.
StopRun ==
    /\ update_running
    /\ pc # "done"
    /\ update_running' = FALSE
    /\ cancel_at' = IF InBatch THEN Len(dl_log) ELSE cancel_at
    /\ stop_at' = [stopped |-> TRUE, pc |-> pc, units |-> UnitsDone]
    /\ UNCHANGED <<pc, report, build_dir>>
    /\ RunFrame

NextRun ==
    \/ StartCheck
    \/ Cleanup
    \/ FetchModList
    \/ FetchExistingMods
    \/ CompareMods
    \/ CheckCancel
    \/ DownloadMods
    \/ DownloadSkip
    \/ DownloadStream
    \/ DownloadHttpError
    \/ DownloadStreamError
    \/ DownloadRaises
    \/ DownloadReturn
    \/ Extract
    \/ ExtractSlugs
    \/ PrimaryNoSlug
    \/ PrimaryLookup
    \/ PrimaryReturn
    \/ BackupNoSlug
    \/ BackupLookup
    \/ BackupReturn
    \/ Tally
    \/ Assemble
    \/ Zip
    \/ StopRun

SpecRun == InitRun /\ [][NextRun]_vars

\* ------------------------------------------------------- cancellation
\* The stage of the pipeline main is at or about to begin: 1 the start of
\* the run up to the reconciliation, 2 download, 3 extraction, 4 resolution,
\* 5 assembly, 6 packaging.
StageOf(p) ==
    CASE p \in {"download_mods", "download_items"} -> 2
      [] p = "extract" -> 3
      [] p \in {"extract_slugs", "primary", "backup", "tally"} -> 4
      [] p = "assemble" -> 5
      [] p = "zip" -> 6
      [] OTHER -> 1

\* C23: once Stop is confirmed, the run does at most the unit of work that
\* was in progress (one item of the download batch or one lookup), begins no
\* stage after the one that follows the stage it was at, and writes no
\* archive unless the packaging was under way.
C23_StopsAfterCancel ==
    stop_at.stopped =>
        /\ UnitsDone <= stop_at.units + 1
        /\ pc # "done" => StageOf(pc) <= StageOf(stop_at.pc) + 1
        /\ archive_written => stop_at.pc = "zip"

\* The part of it about the archive, for a Stop confirmed after the download
\* batch: no archive is written unless the packaging was under way.
C23_NoArchiveAfterStop ==
    stop_at.stopped /\ StageOf(stop_at.pc) >= 3 /\ archive_written => stop_at.pc = "zip"

\* The same, for a Stop confirmed before main's look at the event of line
\* 741 and before any download.
C23_WhenStoppedBeforeCheck ==
    stop_at.stopped /\ StageOf(stop_at.pc) = 1
        => (pc = "done" => report = "cancelled") /\ UnitsDone = 0 /\ ~archive_written

\* The cleanup at the start of a run leaves no entry of the
\* build directory but those the run makes, and leaves the Downloads
\* directory as it is.
C28_CleanupSparesDownloads ==
    [][pc = "cleanup" /\ pc' # pc =>
          build_dir' = FreshEntries /\ downloads' = downloads]_vars

\* ======================================================================
\* The window and its update threads (specification SpecGui)
\* ======================================================================
InitGui ==
    /\ update_running = FALSE
    /\ GuiIdle
    /\ RunIdle
    /\ TaskIdle
    /\ mod_list = <<>>
    /\ non_mod_list = <<>>
    /\ forge_list = <<>>
    /\ pc = "done"
    /\ report = "none"
    /\ CacheIdle
    /\ ResolveIdle
    /\ RateIdle
    /\ MatchIdle
    /\ BuildIdle

\* What the window and its threads leave alone.
OutsideGui ==
    UNCHANGED <<build_mods, mod_list, non_mod_list, forge_list, downloads,
                existing_mods, mods_to_download, mods_to_remove, dl_idx,
                downloaded_files, pc, report, pre_compare, last_compare,
                prev_compare, dl_log, cancel_at, resolveVars, rateVars,
                matchVars, buildVars, runVars, taskVars>>

\* The thread the next Start click creates.
NextWorker == CHOOSE w \in 1..MaxRuns :
                /\ workers[w] = "unborn"
                /\ \A v \in 1..MaxRuns : workers[v] = "unborn" => w <= v

\* A start_update that leaves the Start button as it is.
StartClick_keepsEnabled ==
    /\ start_button = "normal"
    /\ gui_pc = "idle"
    /\ \E w \in 1..MaxRuns : workers[w] = "unborn"
    /\ stop_button' = "shown"
    /\ update_running' = TRUE
    /\ gui_pc' = "starting"
    /\ UNCHANGED <<start_button, workers, dialog>>
    /\ OutsideGui

\* A click on Start, which a disabled button ignores; start_update, lines
\* 63-71: the button is disabled, Stop is shown, the event is set.
StartClick ==
    /\ start_button = "normal"
    /\ gui_pc = "idle"
    /\ \E w \in 1..MaxRuns : workers[w] = "unborn"
    /\ start_button' = "disabled"
    /\ stop_button' = "shown"
    /\ update_running' = TRUE
    /\ gui_pc' = "starting"
    /\ UNCHANGED <<workers, dialog>>
    /\ OutsideGui

\* start_update, lines 73-89: the thread is created and started.
ThreadStart ==
    /\ gui_pc = "starting"
    /\ workers' = [workers EXCEPT ![NextWorker] = "config"]
    /\ gui_pc' = "idle"
    /\ UNCHANGED <<update_running, start_button, stop_button, dialog>>
    /\ OutsideGui

\* run_update_process, lines 33-45: the configuration is loaded and saved;
\* main is called unless load_config gave nothing or save_config raised.
WorkerConfig(w) ==
    /\ workers[w] = "config"
    /\ \E next \in {"main", "finally"} : workers' = [workers EXCEPT ![w] = next]
    /\ UNCHANGED <<update_running, start_button, stop_button, gui_pc, dialog>>
    /\ OutsideGui

\* run_update_process, lines 46-55: main returns or raises.
WorkerMain(w) ==
    /\ workers[w] = "main"
    /\ workers' = [workers EXCEPT ![w] = "finally"]
    /\ UNCHANGED <<update_running, start_button, stop_button, gui_pc, dialog>>
    /\ OutsideGui

\* run_update_process, line 58.
WorkerEnable(w) ==
    /\ workers[w] = "finally"
    /\ start_button' = "normal"
    /\ workers' = [workers EXCEPT ![w] = "hide"]
    /\ UNCHANGED <<update_running, stop_button, gui_pc, dialog>>
    /\ OutsideGui

\* A thread that ends without hiding the Stop button.
WorkerHide_keepsShown(w) ==
    /\ workers[w] = "hide"
    /\ workers' = [workers EXCEPT ![w] = "dead"]
    /\ UNCHANGED <<update_running, start_button, stop_button, gui_pc, dialog>>
    /\ OutsideGui

\* run_update_process, line 59; the thread ends.
WorkerHide(w) ==
    /\ workers[w] = "hide"
    /\ stop_button' = "hidden"
    /\ workers' = [workers EXCEPT ![w] = "dead"]
    /\ UNCHANGED <<update_running, start_button, gui_pc, dialog>>
    /\ OutsideGui

\* A click on Stop while it is shown: stop_update asks its question.
StopClick ==
    /\ stop_button = "shown"
    /\ gui_pc = "idle"
    /\ ~dialog
    /\ dialog' = TRUE
    /\ UNCHANGED <<update_running, start_button, stop_button, workers, gui_pc>>
    /\ OutsideGui

\* stop_update, lines 93-95: on "yes" the event is cleared and Stop hidden.
StopAnswer ==
    /\ dialog
    /\ dialog' = FALSE
    /\ \/ update_running' = FALSE /\ stop_button' = "hidden"
       \/ UNCHANGED <<update_running, stop_button>>
    /\ UNCHANGED <<start_button, workers, gui_pc>>
    /\ OutsideGui

NextGui ==
    \/ StartClick
    \/ ThreadStart
    \/ \E w \in 1..MaxRuns : WorkerConfig(w)
    \/ \E w \in 1..MaxRuns : WorkerMain(w)
    \/ \E w \in 1..MaxRuns : WorkerEnable(w)
    \/ \E w \in 1..MaxRuns : WorkerHide(w)
    \/ StopClick
    \/ StopAnswer

SpecGui == InitGui /\ [][NextGui]_vars

\* The threads that are executing main.
InMain == {w \in 1..MaxRuns : workers[w] = "main"}

\* The threads of a run that has started and whose main has not returned.
Unfinished == {w \in 1..MaxRuns : workers[w] \in {"config", "main"}}

\* C24: at most one update thread is executing main, and the Start button
\* is disabled from the click that starts a run until the run's thread has
\* finished with main.
C24_OneWorker ==
    /\ Cardinality(InMain) <= 1
    /\ Cardinality(Unfinished) <= 1
    /\ gui_pc = "starting" \/ Unfinished # {} => start_button = "disabled"
    /\ gui_pc = "starting" => Unfinished = {}

\* C24: a run's thread is executing main after Stop was confirmed, while
\* the thread of the run before it has not ended yet.
C24_Witness ==
    /\ ~update_running
    /\ \E v, w \in 1..MaxRuns : workers[v] = "hide" /\ workers[w] = "main"

\* ======================================================================
\* The batches of extraction tasks (specification SpecTasks)
\* ======================================================================
\* The builds whose batches are followed task by task.
TaskLists == {<<ModJei>>, <<ModOwn>>, <<ModJei, ModOwn>>}

\* main at line 752.  The cache stage has left the verified files of some of
\* the descriptors.  The resolution (lines 771-785, modelled in SpecResolve)
\* will resolve the mods that have a slug and leave the others: its lists
\* are set from the start.
InitTasks ==
    /\ mod_list \in TaskLists
    /\ non_mod_list \in {<<>>, <<AssetD>>}
    /\ forge_list = <<>>
    /\ update_running = TRUE
    /\ pc = "extract"
    /\ report = "none"
    /\ \E S \in SUBSET NamesOf(mod_list \o non_mod_list) :
        CacheLeft(CachedFiles(mod_list \o non_mod_list, S))
    /\ slugs = extract_slugs_from_mod_list(mod_list)
    /\ available_mods = NamesIn(mod_list, DOMAIN slugs)
    /\ backup_available = <<>>
    /\ still_unavailable = NamesIn(mod_list, NamesOf(mod_list) \ DOMAIN slugs)
    /\ unavailable_mods = still_unavailable
    /\ r_idx = 1
    /\ \E id \in {e.fileId : e \in Catalog} :
        attached = [n \in DOMAIN slugs |->
                        [projectID |-> ProjectId(slugs[n]), fileID |-> id]]
    /\ manifest_json = <<"not written">>
    /\ overrides = {}
    /\ archive_written = FALSE
    /\ log = {}
    /\ lookups = <<>>
    /\ last_resp = "none"
    /\ picked = <<>>
    /\ RateIdle
    /\ MatchIdle
    /\ BuildIdle
    /\ RunIdle
    /\ GuiIdle
    /\ TaskIdle

\* What the batches leave alone.
OutsideTasks ==
    UNCHANGED <<build_mods, mod_list, non_mod_list, forge_list, downloads,
                existing_mods, mods_to_download, mods_to_remove, dl_idx,
                downloaded_files, update_running, pre_compare, last_compare,
                prev_compare, dl_log, cancel_at, slugs, available_mods,
                unavailable_mods, backup_available, still_unavailable,
                attached, archive_written, log, lookups, last_resp, picked,
                rateVars, matchVars, buildVars, runVars, guiVars>>

\* executor.submit: a task for each descriptor of the list, running.
Submitted(ds, kind) ==
    [i \in 1..Len(ds) |-> [d |-> ds[i], kind |-> kind, state |-> "running"]]

\* The task has returned or raised.
Finished(t) == t.state \in {"done", "raised", "failed"}

AllFinished == \A i \in 1..Len(tasks) : Finished(tasks[i])

\* The task with its state changed.
SetState(i, st) == [tasks EXCEPT ![i].state = st]

\* main 752-757 and extract_files 284-295: the archives of the non-mod
\* assets that are in Downloads are submitted for extraction.
SubmitNonMods ==
    /\ pc = "extract"
    /\ LET files == SelectSeq(non_mod_list, InDownloads) IN
        /\ tasks' = Submitted(files, "extract_file")
        /\ pc' = IF files = <<>> THEN "extract_mods" ELSE "join_nonmods"
    /\ UNCHANGED <<report, r_idx, manifest_json, overrides, transient, main_exc>>
    /\ OutsideTasks

\* main 759-769 and extract_files 284-295, for the mods.
SubmitMods ==
    /\ pc = "extract_mods"
    /\ LET files == SelectSeq(mod_list, InDownloads) IN
        IF files = <<>>
        THEN pc' = "done" /\ report' = "error017" /\ UNCHANGED tasks
        ELSE pc' = "join_mods" /\ report' = report
                /\ tasks' = Submitted(files, "extract_file")
    /\ UNCHANGED <<r_idx, manifest_json, overrides, transient, main_exc>>
    /\ OutsideTasks

\* extract_file, lines 262-282: the archive is unpacked into the minecraft
\* tree, or ZipFile raises.
TaskExtractFile(i) ==
    /\ tasks[i].kind = "extract_file"
    /\ tasks[i].state = "running"
    /\ \E st \in {"done", "raised"} : tasks' = SetState(i, st)
    /\ UNCHANGED <<pc, report, r_idx, manifest_json, overrides, transient, main_exc>>
    /\ OutsideTasks

AtJoin == pc \in {"join_nonmods", "join_mods", "join_structure"}

\* Lines 296-297, 591-592: future.result() of a task that raised raises.
JoinRaises ==
    /\ AtJoin
    /\ ~main_exc
    /\ \E i \in 1..Len(tasks) : tasks[i].state = "raised"
    /\ main_exc' = TRUE
    /\ UNCHANGED <<pc, report, r_idx, manifest_json, overrides, tasks, transient>>
    /\ OutsideTasks

\* The end of the "with" block with an exception on its way: shutdown waits
\* for every task, then the exception reaches main's handler (806-808 or
\* 812-814).
ShutdownWait ==
    /\ AtJoin
    /\ main_exc
    /\ AllFinished
    /\ main_exc' = FALSE
    /\ pc' = "done"
    /\ report' = "program_fault"
    /\ UNCHANGED <<r_idx, manifest_json, overrides, tasks, transient>>
    /\ OutsideTasks

\* extract_files returns: every future was yielded by as_completed and gave
\* its result.  The resolution follows the second batch.
JoinExtract ==
    /\ pc \in {"join_nonmods", "join_mods"}
    /\ ~main_exc
    /\ \A i \in 1..Len(tasks) : tasks[i].state = "done"
    /\ pc' = IF pc = "join_nonmods" THEN "extract_mods" ELSE "tally"
    /\ UNCHANGED <<report, r_idx, manifest_json, overrides, tasks, transient, main_exc>>
    /\ OutsideTasks

\* create_curseforge_structure, lines 558-572.
StructureBegin ==
    /\ pc = "assemble"
    /\ pc' = "submit_assets"
    /\ r_idx' = 1
    /\ tasks' = <<>>
    /\ UNCHANGED <<report, manifest_json, overrides, transient, main_exc>>
    /\ OutsideTasks

\* Lines 575-580: the archive of an asset is copied into the overrides tree
\* and its task submitted; shutil.copy raises when the file is absent.
SubmitAsset ==
    /\ pc = "submit_assets"
    /\ r_idx <= Len(non_mod_list)
    /\ LET d == non_mod_list[r_idx] IN
        IF InDownloads(d)
        THEN /\ transient' = transient \cup {sanitize_filename(d.url)}
             /\ tasks' = tasks \o Submitted(<<d>>, "extract_and_copy_file")
             /\ r_idx' = r_idx + 1
             /\ UNCHANGED <<pc, main_exc>>
        ELSE /\ main_exc' = TRUE
             /\ pc' = "join_structure"
             /\ UNCHANGED <<tasks, transient, r_idx>>
    /\ UNCHANGED <<report, manifest_json, overrides>>
    /\ OutsideTasks

\* Lines 583-588: a task is submitted for each mod not among the available.
SubmitUnavailable ==
    /\ pc = "submit_assets"
    /\ r_idx > Len(non_mod_list)
    /\ tasks' = tasks \o
          Submitted(SelectSeq(mod_list, LAMBDA m : m.name \notin Range(available_mods)),
                    "extract_and_copy_file")
    /\ pc' = "join_structure"
    /\ UNCHANGED <<report, r_idx, manifest_json, overrides, transient, main_exc>>
    /\ OutsideTasks

\* extract_and_copy_file, lines 546-547, 555-556: the archive is copied into
\* the overrides tree; the error of an absent file is printed.
TaskCopy(i) ==
    /\ tasks[i].kind = "extract_and_copy_file"
    /\ tasks[i].state = "running"
    /\ IF InDownloads(tasks[i].d)
       THEN /\ transient' = transient \cup {sanitize_filename(tasks[i].d.url)}
            /\ tasks' = SetState(i, "copied")
       ELSE /\ tasks' = SetState(i, "failed")
            /\ UNCHANGED transient
    /\ UNCHANGED <<pc, report, r_idx, manifest_json, overrides, main_exc>>
    /\ OutsideTasks

\* Lines 549-551, 555-556: the copy is unpacked into the overrides tree, or
\* ZipFile raises and the error is printed.
TaskUnzip(i) ==
    /\ tasks[i].kind = "extract_and_copy_file"
    /\ tasks[i].state = "copied"
    /\ \/ /\ overrides' = overrides \cup {Unpacked(tasks[i].d)}
          /\ tasks' = SetState(i, "unzipped")
       \/ /\ tasks' = SetState(i, "failed")
          /\ UNCHANGED overrides
    /\ UNCHANGED <<pc, report, r_idx, manifest_json, transient, main_exc>>
    /\ OutsideTasks

\* Line 554: the copy is removed.
TaskRemove(i) ==
    /\ tasks[i].kind = "extract_and_copy_file"
    /\ tasks[i].state = "unzipped"
    /\ transient' = transient \ {sanitize_filename(tasks[i].d.url)}
    /\ tasks' = SetState(i, "done")
    /\ UNCHANGED <<pc, report, r_idx, manifest_json, overrides, main_exc>>
    /\ OutsideTasks

\* Lines 590-634: every future gave its result (None); manifest.json is
\* written and create_curseforge_structure returns.
JoinStructure ==
    /\ pc = "join_structure"
    /\ ~main_exc
    /\ AllFinished
    /\ \A i \in 1..Len(tasks) : tasks[i].state # "raised"
    /\ manifest_json' = ManifestFiles(available_mods)
    /\ pc' = "zip"
    /\ UNCHANGED <<report, r_idx, overrides, tasks, transient, main_exc>>
    /\ OutsideTasks

NextTasks ==
    \/ SubmitNonMods
    \/ SubmitMods
    \/ \E i \in 1..Len(tasks) : TaskExtractFile(i)
    \/ JoinRaises
    \/ ShutdownWait
    \/ JoinExtract
    \/ Tally
    \/ StructureBegin
    \/ SubmitAsset
    \/ SubmitUnavailable
    \/ \E i \in 1..Len(tasks) : TaskCopy(i)
    \/ \E i \in 1..Len(tasks) : TaskUnzip(i)
    \/ \E i \in 1..Len(tasks) : TaskRemove(i)
    \/ JoinStructure
    \/ Zip

SpecTasks == InitTasks /\ [][NextTasks]_vars

\* ----------------------------------------------------------------------
\* create_curseforge_structure has returned.
StructureReturned == pc = "zip" \/ (pc = "done" /\ report = "completed")

C26_OnlyFailedLeft ==
    StructureReturned =>
        \A f \in transient :
            \E i \in 1..Len(tasks) :
                /\ tasks[i].state = "failed"
                /\ sanitize_filename(tasks[i].d.url) = f

\* A structure that returned after a task had failed with its copy left.
C26_CopyLeft == StructureReturned /\ transient # {}

\* ----------------------------------------------------------------------
\* No batch is under way: main is before, between or after the "with"
\* blocks of extract_files and create_curseforge_structure.
BetweenBatches ==
    pc \notin {"join_nonmods", "join_mods", "submit_assets", "join_structure"}

\* A task of the last batch did not do its work: its future holds an
\* exception, or it caught one and returned.
SomeTaskFailed ==
    \E i \in 1..Len(tasks) : tasks[i].state \in {"raised", "failed"}

C25_BatchJoined == BetweenBatches => AllFinished

\* The exception of a future reaches main: future.result() raises it again.
C25_RaisedReachesCaller ==
    BetweenBatches /\ (\E i \in 1..Len(tasks) : tasks[i].state = "raised")
        => report = "program_fault"

\* A structure that returned although one of its tasks had failed.
C25_FailureLost == StructureReturned /\ SomeTaskFailed

\* ======================================================================
\* The event update_running and the end of a run (gui.py)
\* ======================================================================
\* handle_close, line 123: the close of the window asks about an update in
\* progress.
handle_close_asks == update_running

\* No update is under way: start_update is not creating a thread and every
\* thread created has ended.
NoWorkerRunning ==
    /\ gui_pc = "idle"
    /\ \A w \in 1..MaxRuns : workers[w] \in {"unborn", "dead"}

\* C31: the event update_running is clear in every state in which no worker
\* is running, so that the close of the window does not report an update in
\* progress when there is none.
C31_ClearWhenIdle == NoWorkerRunning => ~handle_close_asks

\* The event is set by the click that starts a run.
C31_SetAtStart ==
    [][gui_pc = "idle" /\ gui_pc' = "starting" => update_running']_vars

\* Nothing clears the event but a confirmed Stop.
C31_ClearedByStopOnly ==
    [][update_running /\ ~update_running' => dialog /\ ~dialog']_vars

\* A run has ended, no thread is left, and the event is still set.
C31_StaleEvent ==
    /\ NoWorkerRunning
    /\ \E w \in 1..MaxRuns : workers[w] = "dead"
    /\ handle_close_asks

\* ----------------------------------------------------------------------
\* The window with its threads scheduled: start_update runs to its end,
\* and a thread that can take its next step takes it (load_config,
\* save_config and main return or raise; the finally block follows).  The
\* clicks and the answers of the user are under no obligation.
SpecGuiLive ==
    /\ SpecGui
    /\ WF_vars(ThreadStart)
    /\ \A w \in 1..MaxRuns :
        /\ WF_vars(WorkerConfig(w))
        /\ WF_vars(WorkerMain(w))
        /\ WF_vars(WorkerEnable(w))
        /\ WF_vars(WorkerHide(w))

\* The window shows no run: Start can be clicked and Stop is hidden.
ButtonsAtRest == start_button = "normal" /\ stop_button = "hidden"

\* C32: every update that was started eventually ends, with the Start
\* button enabled again and the Stop button hidden, whether main was
\* called or not and however it came back.
C32_RunEndsAtRest ==
    \A w \in 1..MaxRuns :
        (gui_pc = "starting" /\ NextWorker = w) \/ workers[w] = "config"
            ~> (workers[w] = "dead" /\ ButtonsAtRest)

\* C32: a run whose Stop was confirmed has ended, its thread is dead and the
\* buttons are at rest.
C32_Witness ==
    /\ ~update_running
    /\ workers[1] = "dead"
    /\ NoWorkerRunning
    /\ ButtonsAtRest

====
